---- MODULE Spec2Model ----
(***************************************************************************)
(* Model of ipcam-browser (src/main.go): the fetch-or-build media cache,   *)
(* the camera request limiter, the video conversion path, the catalog      *)
(* listing requests, the pre-caching goroutines and the background         *)
(* cacher's scheduling loop.                                               *)
(***************************************************************************)
EXTENDS Integers, Sequences, FiniteSets, TLC

(* ------------------------------ bounds --------------------------------- *)

\* Goroutines serving /api/proxy and /api/video/ requests (one request each)
NG == 3

\* Goroutines serving requests in the camera-load scenario (SpecLimit)
NL == 4

\* Goroutines started by go statements that run at the same time; a started
\* goroutine that has not taken its first step waits for one of these
NW == 2

\* Background runs started (the run at startup and the runs started by ticks)
MaxRuns == 3

\* Pieces in a request's url parameter or path (SpecValidate)
MaxReqLen == 4

\* Value of MAX_CONCURRENT_CONVERSIONS in the environment (any value >= 1)
MaxConcurrentConversions == 1

\* instants of a date directory, in seconds: 0..MaxTime
MaxTime == 3

\* items of a date directory
MaxMedia == 3

\* date directories on the SD card
MaxDates == 2

\* pieces a raw video is put together from
MaxChunks == 4

\* lines in the output of ffprobe
MaxLines == 2

(* -------------------------- program constants -------------------------- *)

\* make(chan struct{}, 3): capacity of MediaCache.cameraSem
CameraSemCap == 3

\* bytes of an HXVS/HXVF header, and of its tag
HeaderLen == 16

TagLen == 4

(* ----------------------------- goroutines ------------------------------ *)

\* Notation: the larger of two numbers
Max(a, b) == IF a > b THEN a ELSE b

NH == Max(NG, NL)

\* the goroutine of BackgroundCacher.Start
BG == 0
G == 1..NG
L == 1..NL

\* In SpecLimit request 1 is a GET /api/media, the others are /api/proxy
\* requests, the last of them possibly an /api/video/ request instead
MediaRequests == {1}
ProxyRequests == L \ MediaRequests
VideoRequests == {NL}
W == (NH + 1)..(NH + NW)
AllG == 0..(NH + NW)

(* ------------------------- URLs, keys and paths ------------------------ *)

\* A URL is modelled as the sequence of the pieces it is written with; its
\* text is their concatenation. No piece is a prefix of another, so one
\* sequence is a prefix of another exactly when its text is.
Pieces == {"http://", "cam", ".evil", "@evil", "/", "sd", "x.jpg", "%2F", "%"}

\* CAMERA_URL: the camera's SD card (README), or the bare camera (API.md)
CameraURLs == {<<"http://", "cam", "/", "sd">>, <<"http://", "cam">>}
DefaultCameraURL == <<"http://", "cam", "/", "sd">>

\* The SD card holds two images and one raw video; requests also name a
\* resource ending in ".mp4" and, in SpecLimit, one image of their own each.
ImageURL == DefaultCameraURL \o <<"/", "i.jpg">>
OtherImageURL == DefaultCameraURL \o <<"/", "j.jpg">>
RawVideoURL == DefaultCameraURL \o <<"/", "v.264">>
Mp4URL == DefaultCameraURL \o <<"/", "m.mp4">>
OwnImage(g) == DefaultCameraURL \o <<"/", ToString(g) \o ".jpg">>
NoURL == <<>>

URLs == {ImageURL, OtherImageURL, RawVideoURL, Mp4URL} \cup {OwnImage(g) : g \in L}

\* strings.HasPrefix(s, prefix)
HasPrefix(s, prefix) ==
    /\ Len(prefix) <= Len(s)
    /\ \A i \in 1..Len(prefix) : s[i] = prefix[i]

\* The part of a piece from its last dot on, "" when it has no dot
DotSuffix(t) ==
    CASE t = ".evil" -> ".evil"
      [] t = "v.264" -> ".264"
      [] t = "m.mp4" -> ".mp4"
      [] t \in {".264", ".265", ".jpg"} -> t
      [] t \in {"http://", "cam", "@evil", "/", "sd", "%2F", "%"} -> ""
      [] t \in {"v", "+", " ", "%2B", "%25", "http%3A%2F%2F", "2025-11-21",
                "images000", "record000", "/api/video/", "/api/proxy?url="} -> ""
      [] OTHER -> ".jpg"

\* The text of the pieces s[i..Len(s)]
RECURSIVE TextFrom(_, _)
TextFrom(s, i) == IF i > Len(s) THEN "" ELSE s[i] \o TextFrom(s, i + 1)

\* filepath.Ext(url): the suffix beginning at the final dot of the final
\* slash-separated element, "" when that element has no dot
Ext(u) ==
    LET slashes == {i \in 1..Len(u) : u[i] \in {"/", "http://"}}
        from == IF slashes = {} THEN 1
                ELSE (CHOOSE i \in slashes : \A j \in slashes : j <= i) + 1
        dots == {i \in from..Len(u) : DotSuffix(u[i]) # ""}
    IN  IF dots = {} THEN ""
        ELSE LET d == CHOOSE i \in dots : \A j \in dots : j <= i
             IN  DotSuffix(u[d]) \o TextFrom(u, d + 1)

\* url.QueryUnescape(path): "%2F" is the escape of "/"; "%" stands for an
\* escape that is not valid, on which an error is returned
QueryUnescapeFails(path) == \E i \in 1..Len(path) : path[i] = "%"
QueryUnescape(path) ==
    [i \in 1..Len(path) |->
        CASE path[i] = "%2F" -> "/"
          [] path[i] = "%2B" -> "+"
          [] path[i] = "%25" -> "%"
          [] path[i] = "http%3A%2F%2F" -> "http://"
          [] path[i] = "+" -> " "
          [] OTHER -> path[i]]

\* url.QueryEscape(s): "/", ":", "+" and "%" are escaped, a space becomes "+"
QueryEscape(s) ==
    [i \in 1..Len(s) |->
        CASE s[i] = "/" -> "%2F"
          [] s[i] = "+" -> "%2B"
          [] s[i] = "%" -> "%25"
          [] s[i] = "http://" -> "http%3A%2F%2F"
          [] s[i] = " " -> "+"
          [] OTHER -> s[i]]

\* r.URL.Path of a request: net/http unescapes the path of the request line
\* once, as a path: the escapes are decoded, a "+" stays a "+"
URLPath(requestPath) ==
    [i \in 1..Len(requestPath) |->
        CASE requestPath[i] = "%2F" -> "/"
          [] requestPath[i] = "%2B" -> "+"
          [] requestPath[i] = "%25" -> "%"
          [] OTHER -> requestPath[i]]

\* strings.TrimPrefix(s, prefix) and strings.TrimSuffix(s, suffix) for a
\* prefix or suffix that is one piece
TrimPrefix(s, prefix) == IF s # <<>> /\ s[1] = prefix THEN Tail(s) ELSE s
TrimSuffix(s, suffix) ==
    IF s # <<>> /\ s[Len(s)] = suffix THEN SubSeq(s, 1, Len(s) - 1) ELSE s

\* url.Parse: the authority is what follows "http://" up to the first "/"
\* (AuthorityEnd is the piece with that "/", 0 when there is none); the host is
\* the authority without the user information that ends in "@" (and without
\* the port); the path starts at that "/"
AuthorityEnd(u) ==
    LET slashes == {i \in 2..Len(u) : u[i] \in {"/", "http://"}}
    IN  IF slashes = {} THEN 0 ELSE CHOOSE i \in slashes : \A j \in slashes : i <= j

Authority(u) ==
    IF u = <<>> \/ u[1] # "http://" THEN <<>>
    ELSE IF AuthorityEnd(u) = 0 THEN SubSeq(u, 2, Len(u))
    ELSE SubSeq(u, 2, AuthorityEnd(u) - 1)
         \o (IF u[AuthorityEnd(u)] = "http://" THEN <<"http", ":">> ELSE <<>>)

Host(u) ==
    LET a == Authority(u)
        ats == {i \in 1..Len(a) : a[i] = "@evil"}
        h == IF ats = {} THEN a
             ELSE LET i == CHOOSE i \in ats : \A j \in ats : j <= i
                  IN  <<"evil">> \o SubSeq(a, i + 1, Len(a))
    IN  IF h # <<>> /\ h[Len(h)] = ":" THEN SubSeq(h, 1, Len(h) - 1) ELSE h

PathOf(u) ==
    IF u = <<>> \/ u[1] # "http://" THEN u
    ELSE IF AuthorityEnd(u) = 0 THEN <<>>
    ELSE (IF u[AuthorityEnd(u)] = "http://" THEN <<"/", "/">> ELSE <<"/">>)
         \o SubSeq(u, AuthorityEnd(u) + 1, Len(u))

\* http.NewRequest parses the URL: an escape that is not valid, or an escape
\* in the host, is an error
Parsable(u) ==
    /\ \A i \in 1..Len(u) : u[i] # "%"
    /\ \A i \in 1..Len(Authority(u)) : Authority(u)[i] # "%2F"

\* Targets of /api/proxy requests and paths of /api/video/ requests in Spec
ProxyURLs == {ImageURL, Mp4URL}
VideoPaths == {<<"v.264">>, <<"m.mp4">>}

\* getCacheKey: hex(sha256(url)) + suffix, injective in (url, suffix)
getCacheKey(u, s) == <<u, s>>

\* The keys the callers use: (url, ext) in handleProxy and preCacheImages,
\* (url, ".mp4") in handleVideoProxy and the video pre-caching
Keys ==
    {getCacheKey(u, Ext(u)) : u \in URLs \ {RawVideoURL}}
    \cup {getCacheKey(u, ".mp4") : u \in {RawVideoURL, Mp4URL}}

NoKey == getCacheKey(NoURL, "")

\* getCachePath: filepath.Join(c.dir, getCacheKey(url, suffix))
getCachePath(u, s) == <<"final", getCacheKey(u, s), 0>>

\* os.CreateTemp(c.dir, "temp-*"+suffix): a fresh name, never one in use and
\* never a cache name; TempPath(g) is the name goroutine g is given.
TempPath(g) == <<"temp", NoKey, g>>

NoPath == <<"", NoKey, 0>>

Paths == {<<"final", k, 0>> : k \in Keys} \cup {TempPath(g) : g \in AllG}

VARIABLES
    gor,        \* gor[g]: the goroutine's handler, position and locals
    fs,         \* fs[p]: state of the file at path p in the cache directory
    locks,      \* MediaCache.locks (the sync.Map of per-file mutexes): <<key, mutex>>
    held,       \* held[k]: goroutine holding the mutex of key k, -1 if unlocked
    cameraSem,  \* len(mediaCache.cameraSem): permits held
    tasks,      \* pre-cache work: loops, started goroutines, semaphores
    sched,      \* BackgroundCacher: ticker, channels, mutex
    config      \* the configuration main loads from the environment

vars == <<gor, fs, locks, held, cameraSem, tasks, sched, config>>

Idle == [kind |-> "none", pc |-> "idle", fn |-> "none", url |-> NoURL, suffix |-> "",
         dest |-> NoPath, built |-> FALSE, ret |-> "none", path |-> NoPath,
         stage |-> "none", imgs |-> FALSE, vids |-> FALSE, owner |-> 0, mu |-> 0]

\* Contents of a path: no file, or a file in some state of being written by
\* the build of goroutine g
Absent == <<"absent", -1>>

\* No file at a path either: cleanup-old-cache.sh deleted the file
Deleted == <<"deleted", -1>>
File(st, g) == <<st, g>>

KeyOf(g) == getCacheKey(gor[g].url, gor[g].suffix)
CachePathOf(g) == getCachePath(gor[g].url, gor[g].suffix)
TempPathOf(g) == TempPath(g)

\* os.Stat(path) returns no error
Exists(p) == fs[p] \notin {Absent, Deleted}

\* the goroutines of the pre-caching go statements
ItemKinds == {"async", "sync", "thumb", "image"}

\* preCacheVideos loops: one per fetchAllMedia call, named by its caller
\* (a request goroutine, or NH + r for the r-th background run)
LoopIds == 1..(NH + MaxRuns)

NoLoop == [todo |-> <<>>, sem |-> 0]

InitTasks == [loop |-> [j \in LoopIds |-> NoLoop], pend |-> {},
              syncSem |-> 0, imgSem |-> 0, wg |-> 0]

InitSched == [pc |-> "off", tickerC |-> 0, stopCh |-> FALSE, doneCh |-> FALSE,
              running |-> FALSE, ticker |-> FALSE, stop |-> "none", runs |-> 0,
              active |-> 0, late |-> FALSE, images |-> {ImageURL}]

Init ==
    /\ gor = [g \in AllG |-> Idle]
    /\ fs = [p \in Paths |-> Absent]
    /\ locks = {}
    /\ held = [k \in Keys |-> -1]
    /\ cameraSem = 0
    /\ tasks = InitTasks
    /\ sched = InitSched
    /\ config = [CameraURL |-> DefaultCameraURL]

(* ------------------- MediaCache.Get / GetWithFile ---------------------- *)

\* The deferred statements of a pre-cache goroutine whose Get/GetWithFile has
\* returned: <-sem, and wg.Done() in a background run (the error is logged)
ItemDone(t, rec) ==
    CASE rec.kind = "async" ->
            [t EXCEPT !.loop[rec.owner].sem = @ - 1]
      [] rec.kind = "sync" ->
            [t EXCEPT !.syncSem = @ - 1, !.wg = @ - 1]
      [] rec.kind \in {"thumb", "image"} ->
            [t EXCEPT !.imgSem = @ - 1, !.wg = @ - 1]
      [] OTHER -> t

\* The errors Get/GetWithFile return: fetchFromCamera's, or any other
Errors == {"errFetch", "err"}

\* Mutant of Returned: the cache path is returned with the error too
ReturnedPathAlways(rec, r) ==
    IF rec.kind \in ItemKinds
    THEN Idle
    ELSE [rec EXCEPT !.pc = "done", !.ret = r, !.dest = NoPath,
                     !.path = getCachePath(rec.url, rec.suffix)]

\* The caller of Get/GetWithFile has its result: a request goroutine keeps
\* it (the handler serves the file or answers 500), a pre-cache goroutine
\* ends and another started goroutine can run
Returned(rec, r) ==
    IF rec.kind \in ItemKinds
    THEN Idle
    ELSE [rec EXCEPT !.pc = "done", !.ret = r, !.dest = NoPath,
                     !.path = IF r = "ok" THEN getCachePath(rec.url, rec.suffix)
                              ELSE NoPath]

\* os.Remove(path); removing a name that does not exist changes nothing
Removed(fsNow, p) == [fsNow EXCEPT ![p] = Absent]

\* Mutant of Cleanup: the script leaves the start of the file in place
CleanupTruncates(p) ==
    /\ p[1] = "final"
    /\ Exists(p)
    /\ fs' = [fs EXCEPT ![p] = File("partial", fs[p][2])]
    /\ UNCHANGED <<gor, locks, config, held, cameraSem, tasks, sched>>

\* cleanup-old-cache.sh run from cron next to the server: find -type f
\* -mtime +N -delete unlinks every file of the cache directory older than N
\* days. Cached files stay until then, so each of them comes of age at some
\* moment; a temp file lives only as long as the build that made it.
Cleanup(p) ==
    /\ p[1] = "final"
    /\ Exists(p)
    /\ fs' = [fs EXCEPT ![p] = Deleted]
    /\ UNCHANGED <<gor, locks, config, held, cameraSem, tasks, sched>>

\* Mutant of Return: no deferred fileLock.Unlock()
ReturnKeepsLock(g, r, fsNow) ==
    /\ gor' = [gor EXCEPT ![g] = Returned(gor[g], r)]
    /\ tasks' = ItemDone(tasks, gor[g])
    /\ fs' = Removed(fsNow, TempPathOf(g))
    /\ held' = held

\* Mutant of Return: no deferred os.Remove(tempPath)
ReturnKeepsTemp(g, r, fsNow) ==
    /\ gor' = [gor EXCEPT ![g] = Returned(gor[g], r)]
    /\ tasks' = ItemDone(tasks, gor[g])
    /\ fs' = fsNow
    /\ held' = [held EXCEPT ![KeyOf(g)] = IF @ = g THEN -1 ELSE @]

\* Mutant of Return: the deferred cleanup removes cachePath too
ReturnRemovesCachePath(g, r, fsNow) ==
    /\ gor' = [gor EXCEPT ![g] = Returned(gor[g], r)]
    /\ tasks' = ItemDone(tasks, gor[g])
    /\ fs' = Removed(Removed(fsNow, TempPathOf(g)), CachePathOf(g))
    /\ held' = [held EXCEPT ![KeyOf(g)] = IF @ = g THEN -1 ELSE @]

\* A return from Get/GetWithFile past the fast path: the deferred
\* os.Remove(tempPath) and fileLock.Unlock() run, then the caller has
\* (path, nil) or ("", err).
Return(g, r, fsNow) ==
    /\ gor' = [gor EXCEPT ![g] = Returned(gor[g], r)]
    /\ tasks' = ItemDone(tasks, gor[g])
    /\ fs' = Removed(fsNow, TempPathOf(g))
    /\ held' = [held EXCEPT ![KeyOf(g)] = IF @ = g THEN -1 ELSE @]

\* the entries of the table for a key
StoredFor(table, key) == {e \in table : e[1] = key}

\* Mutant of LoadOrStore: c.locks.Store(cacheKey, &sync.Mutex{}), the new
\* mutex replaces the one that is there
LoadOrStoreReplaces(table, key) ==
    (table \ StoredFor(table, key))
    \cup {<<key, 1 + Cardinality(StoredFor(table, key))
                 + (IF StoredFor(table, key) = {} THEN 0
                    ELSE (CHOOSE e \in StoredFor(table, key) : TRUE)[2] - 1)>>}

\* c.locks.LoadOrStore(cacheKey, &sync.Mutex{}), one atomic operation of
\* sync.Map: the table after it. The new mutex is stored only when the key
\* has none; a mutex is named by its number among those stored for its key.
LoadOrStore(table, key) ==
    IF StoredFor(table, key) # {} THEN table ELSE table \cup {<<key, 1>>}

\* getFileLock(cacheKey): the mutex LoadOrStore returns, the one in the table
getFileLock(table, key) ==
    (CHOOSE e \in StoredFor(LoadOrStore(table, key), key) : TRUE)[2]

\* Mutant of Call: the per-key mutex is never taken
CallNoLock(g, rec, t) ==
    /\ gor[g].pc = "idle"
    /\ IF Exists(getCachePath(rec.url, rec.suffix))
       THEN /\ gor' = [gor EXCEPT ![g] = Returned(rec, "ok")]
            /\ tasks' = ItemDone(t, rec)
            /\ UNCHANGED <<locks, config>>
       ELSE /\ gor' = [gor EXCEPT ![g] =
                          [rec EXCEPT !.pc = "stat2",
                                      !.mu = getFileLock(locks, getCacheKey(rec.url, rec.suffix))]]
            /\ tasks' = t
            /\ locks' = LoadOrStore(locks, getCacheKey(rec.url, rec.suffix))
            /\ UNCHANGED config
    /\ UNCHANGED <<fs, held, cameraSem, sched>>

\* Entry of Get or GetWithFile by goroutine g with locals rec: the fast path
\* os.Stat(cachePath) without the lock; on a miss getFileLock (LoadOrStore)
\* and on to Lock(). t is the pre-cache state at the call.
Call(g, rec, t) ==
    /\ gor[g].pc = "idle"
    /\ IF Exists(getCachePath(rec.url, rec.suffix))
       THEN /\ gor' = [gor EXCEPT ![g] = Returned(rec, "ok")]
            /\ tasks' = ItemDone(t, rec)
            /\ UNCHANGED <<locks, config>>
       ELSE /\ gor' = [gor EXCEPT ![g] =
                          [rec EXCEPT !.pc = "lock",
                                      !.mu = getFileLock(locks, getCacheKey(rec.url, rec.suffix))]]
            /\ tasks' = t
            /\ locks' = LoadOrStore(locks, getCacheKey(rec.url, rec.suffix))
            /\ UNCHANGED config
    /\ UNCHANGED <<fs, held, cameraSem, sched>>

\* Mutant of Lock: one mutex for all keys
LockGlobal(g) ==
    /\ gor[g].pc = "lock"
    /\ \A k \in DOMAIN held : held[k] = -1
    /\ held' = [held EXCEPT ![KeyOf(g)] = g]
    /\ gor' = [gor EXCEPT ![g].pc = "stat2"]
    /\ UNCHANGED <<fs, locks, config, cameraSem, tasks, sched>>

\* Mutant of Lock: Lock() does not wait for the holder
LockNoWait(g) ==
    /\ gor[g].pc = "lock"
    /\ held' = [held EXCEPT ![KeyOf(g)] = g]
    /\ gor' = [gor EXCEPT ![g].pc = "stat2"]
    /\ UNCHANGED <<fs, locks, config, cameraSem, tasks, sched>>

\* fileLock.Lock()
Lock(g) ==
    /\ gor[g].pc = "lock"
    /\ held[KeyOf(g)] = -1
    /\ held' = [held EXCEPT ![KeyOf(g)] = g]
    /\ gor' = [gor EXCEPT ![g].pc = "stat2"]
    /\ UNCHANGED <<fs, locks, config, cameraSem, tasks, sched>>

\* The call of the fetchFunc: Get calls fetchFunc(), GetWithFile calls
\* fetchFunc(tempPath); both begin with fetchFromCamera.
CallFetchFunc(g, dest) ==
    gor' = [gor EXCEPT ![g].pc = "acq", ![g].built = TRUE, ![g].dest = dest]

\* Mutant of DestPath: the fetchFunc is handed the final cache path
DestPathFinal(g) == CachePathOf(g)

\* The path GetWithFile hands to its fetchFunc: the temp file's
DestPath(g) == TempPathOf(g)

\* Mutant of DoubleCheck: no second os.Stat under the lock
DoubleCheckNoStat(g) ==
    /\ gor[g].pc = "stat2"
    /\ IF gor[g].fn = "Get"
       THEN /\ CallFetchFunc(g, NoPath)
            /\ UNCHANGED <<fs, locks, config, held, cameraSem, tasks, sched>>
       ELSE /\ CallFetchFunc(g, DestPath(g))
            /\ fs' = [fs EXCEPT ![TempPathOf(g)] = File("empty", g)]
            /\ UNCHANGED <<locks, config, held, cameraSem, tasks, sched>>

\* Double-check under the lock: os.Stat(cachePath) again. On a miss Get calls
\* fetchFunc(); GetWithFile creates and closes its temp file (os.CreateTemp)
\* and calls fetchFunc(tempPath).
DoubleCheck(g) ==
    /\ gor[g].pc = "stat2"
    /\ IF Exists(CachePathOf(g))
       THEN /\ Return(g, "ok", fs)
            /\ UNCHANGED <<locks, config, cameraSem, sched>>
       ELSE IF gor[g].fn = "Get"
            THEN /\ CallFetchFunc(g, NoPath)
                 /\ UNCHANGED <<fs, locks, config, held, cameraSem, tasks, sched>>
            ELSE \E ok \in BOOLEAN :
                   IF ok
                   THEN /\ CallFetchFunc(g, DestPath(g))
                        /\ fs' = [fs EXCEPT ![TempPathOf(g)] = File("empty", g)]
                        /\ UNCHANGED <<locks, config, held, cameraSem, tasks, sched>>
                   ELSE /\ Return(g, "err", fs)
                        /\ UNCHANGED <<locks, config, cameraSem, sched>>

\* Mutant of WriteTemp: a failed write is not returned, the rename goes ahead
WriteTempIgnoreErr(g) ==
    /\ gor[g].pc = "write"
    /\ \E o \in {"ok", "errWrite"} :
         /\ gor' = [gor EXCEPT ![g].pc = "rename"]
         /\ fs' = [fs EXCEPT ![TempPathOf(g)] =
                       File(IF o = "ok" THEN "complete" ELSE "partial", g)]
    /\ UNCHANGED <<held, locks, config, cameraSem, tasks, sched>>

\* State of Get's temp file after tempFile.Write(data) and tempFile.Close()
Written(o) == IF o = "ok" THEN "complete" ELSE "partial"

\* Get after a successful fetch: os.CreateTemp, tempFile.Write(data),
\* tempFile.Close(); every failure returns the error
WriteTemp(g) ==
    /\ gor[g].pc = "write"
    /\ \E o \in {"ok", "errCreateTemp", "errWrite", "errClose"} :
         CASE o = "ok" ->
                /\ gor' = [gor EXCEPT ![g].pc = "rename"]
                /\ fs' = [fs EXCEPT ![TempPathOf(g)] = File(Written(o), g)]
                /\ UNCHANGED <<held, tasks>>
           [] o = "errCreateTemp" -> Return(g, "err", fs)
           [] OTHER -> Return(g, "err", [fs EXCEPT ![TempPathOf(g)] = File(Written(o), g)])
    /\ UNCHANGED <<locks, config, cameraSem, sched>>

\* os.Rename(tempPath, cachePath): atomic, the temp name disappears
Renamed(fsNow, from, to) == [fsNow EXCEPT ![to] = fsNow[from], ![from] = Absent]

\* The rename onto the final name, then the return
Rename(g) ==
    /\ gor[g].pc = "rename"
    /\ \E ok \in BOOLEAN :
         IF ok
         THEN Return(g, "ok", Renamed(fs, TempPathOf(g), CachePathOf(g)))
         ELSE Return(g, "err", fs)
    /\ UNCHANGED <<locks, config, cameraSem, sched>>

(* -------------------------- fetchFromCamera ---------------------------- *)

\* Mutant of Released: the permit is given back on the success path only
ReleasedOnSuccess(sem, outcome) == IF outcome = "ok" THEN sem - 1 ELSE sem

\* defer func() { <-mediaCache.cameraSem }(): runs on every exit
Released(sem, outcome) == sem - 1

\* Mutant of FetchReturn: a failed fetch is attempted again
FetchReturnRetry(g, sem, outcome) ==
    /\ cameraSem' = Released(sem, outcome)
    /\ IF outcome # "ok"
       THEN /\ gor' = [gor EXCEPT ![g].pc = "acq"]
            /\ UNCHANGED <<fs, held, tasks>>
       ELSE /\ gor' = [gor EXCEPT ![g].pc = IF gor[g].fn = "Get" THEN "write" ELSE "clean"]
            /\ UNCHANGED <<fs, held, tasks>>
    /\ UNCHANGED <<locks, config, sched>>

\* fetchFromCamera returns to its caller, Get's fetchFunc (handleProxy,
\* preCacheImages) or convertVideoToMP4, which return its error at once.
FetchReturn(g, sem, outcome) ==
    /\ cameraSem' = Released(sem, outcome)
    /\ IF outcome # "ok"
       THEN Return(g, "errFetch", fs)
       ELSE /\ gor' = [gor EXCEPT ![g].pc = IF gor[g].fn = "Get" THEN "write" ELSE "clean"]
            /\ UNCHANGED <<fs, held, tasks>>
    /\ UNCHANGED <<locks, config, sched>>

\* mediaCache.cameraSem <- struct{}{} blocks while the channel is full; then
\* http.NewRequest, and client.Do(req) puts the request in flight
Acquire(g) ==
    /\ gor[g].pc = "acq"
    /\ cameraSem < CameraSemCap
    /\ \E ok \in {b \in BOOLEAN : b => Parsable(gor[g].url)} :
         IF ok
         THEN /\ cameraSem' = cameraSem + 1
              /\ gor' = [gor EXCEPT ![g].pc = "inflight"]
              /\ UNCHANGED <<fs, locks, config, held, tasks, sched>>
         ELSE FetchReturn(g, cameraSem + 1, "errNewRequest")

\* client.Do returns, status check, io.ReadAll
Response(g) ==
    /\ gor[g].pc = "inflight"
    /\ \E o \in {"ok", "errDo", "errStatus", "errRead"} : FetchReturn(g, cameraSem, o)

(* -------------------------- stripHXVSHeaders --------------------------- *)

Tags == {<<"H", "X", "V", "S">>, <<"H", "X", "V", "F">>}

\* Raw video data is put together from tags, the start of a tag, and runs
\* of 1, HeaderLen - TagLen - 1 and HeaderLen - TagLen other bytes
Chunks ==
    Tags \cup {<<"H", "X", "V">>}
         \cup {[j \in 1..n |-> "o"] : n \in {1, HeaderLen - TagLen - 1, HeaderLen - TagLen}}

RECURSIVE Flatten(_)
Flatten(cs) == IF cs = <<>> THEN <<>> ELSE Head(cs) \o Flatten(Tail(cs))

RawVideos == {Flatten(cs) : cs \in UNION {[1..n -> Chunks] : n \in 0..MaxChunks}}

\* Mutant of IsHeader: a tag is taken for a header however few bytes follow
IsHeaderAnyLength(data, i) ==
    /\ i + TagLen <= Len(data)
    /\ SubSeq(data, i + 1, i + TagLen) \in Tags

\* i+16 <= length and data[i:i+4] is "HXVS" or "HXVF" (i counts from 0)
IsHeader(data, i) ==
    /\ i + HeaderLen <= Len(data)
    /\ SubSeq(data, i + 1, i + TagLen) \in Tags

\* The locals of stripHXVSHeaders(data)
Stripping(data) ==
    [data |-> data, out |-> <<>>, i |-> 0, removed |-> 0]
    @@ [Idle EXCEPT !.kind = "strip", !.pc = "strip"]

\* One round of for i < length, or the return of out after the last
StripStep(g) ==
    /\ gor[g].pc = "strip"
    /\ IF gor[g].i >= Len(gor[g].data)
       THEN gor' = [gor EXCEPT ![g].pc = "done"]
       ELSE IF IsHeader(gor[g].data, gor[g].i)
            THEN gor' = [gor EXCEPT ![g].i = @ + HeaderLen, ![g].removed = @ + HeaderLen]
            ELSE gor' = [gor EXCEPT ![g].out = Append(@, gor[g].data[gor[g].i + 1]),
                                    ![g].i = @ + 1]
    /\ UNCHANGED <<fs, locks, config, held, cameraSem, tasks, sched>>

\* Raw video data in which a marker stands between the start of a tag and
\* the rest of one
SplicedVideos ==
    {a \o tag \o [j \in 1..(HeaderLen - TagLen) |-> "o"] \o b \o [j \in 1..n |-> "o"] :
        a \in {<<>>, <<"H">>, <<"H", "X">>, <<"H", "X", "V">>},
        tag \in Tags,
        b \in {<<>>, <<"S">>, <<"F">>, <<"V", "S">>, <<"X", "V", "F">>},
        n \in {0, HeaderLen - TagLen - 1, HeaderLen - TagLen}}

\* The output of stripHXVSHeaders is passed to stripHXVSHeaders again; first
\* keeps the output of the first pass
StripAgain(g) ==
    /\ gor[g].pc = "done"
    /\ gor[g].pass = 1
    /\ gor' = [gor EXCEPT ![g] = [pass |-> 2, first |-> gor[g].out]
                                    @@ Stripping(gor[g].out)]
    /\ UNCHANGED <<fs, locks, config, held, cameraSem, tasks, sched>>

\* out of stripHXVSHeaders(data) from position i on, as one value
RECURSIVE StripFrom(_, _)
StripFrom(data, i) ==
    IF i >= Len(data)
    THEN <<>>
    ELSE IF IsHeader(data, i)
         THEN StripFrom(data, i + HeaderLen)
         ELSE <<data[i + 1]>> \o StripFrom(data, i + 1)

stripHXVSHeaders(data) == StripFrom(data, 0)

\* the goroutines whose stripHXVSHeaders has returned
Stripped == {g \in AllG : gor[g].kind = "strip" /\ gor[g].pc = "done"}

(* ------------------------------ detectFPS ------------------------------ *)

\* the frame rate convertVideoToMP4 falls back to
DefaultFPS == 20

\* What stands between the "/" of a line of ffprobe's output
Parts == {"30000", "1001", "25", "25.0", "1", "3", "0", "0.4", "-1", "N", ""}

\* parseFloat: the number fmt.Sscanf(s, "%f") reads from s, counted in
\* tenths, and 0 when it reads none
parseFloat(s) ==
    CASE s = "30000" -> 300000
      [] s = "1001" -> 10010
      [] s = "25" -> 250
      [] s = "25.0" -> 250
      [] s = "1" -> 10
      [] s = "3" -> 30
      [] s = "0.4" -> 4
      [] s = "-1" -> -10
      [] OTHER -> 0

\* strings.Split(line, "/") of the lines ffprobe may print: a decimal,
\* a ratio, and a line with two "/"
FpsLines ==
    {<<a>> : a \in Parts} \cup {<<a, b>> : a, b \in Parts} \cup {<<"25", "1", "1">>}

\* cmd.Output(): an error, or the trimmed output split into lines
ProbeResults ==
    {[err |-> TRUE, lines |-> <<>>]} \cup
    {[err |-> FALSE, lines |-> ls] :
        ls \in UNION {[1..n -> FpsLines] : n \in 1..MaxLines}}

Abs(x) == IF x < 0 THEN -x ELSE x

\* The line gives a rate the loop returns: den != 0 and fps > 0 of a ratio,
\* fps > 0 of a decimal
HasRate(line) ==
    CASE Len(line) = 1 -> parseFloat(line[1]) > 0
      [] Len(line) = 2 -> \/ parseFloat(line[1]) > 0 /\ parseFloat(line[2]) > 0
                          \/ parseFloat(line[1]) < 0 /\ parseFloat(line[2]) < 0
      [] OTHER -> FALSE

\* int(fps + 0.5) of a line that has a rate
RoundedRate(line) ==
    IF Len(line) = 1
    THEN (parseFloat(line[1]) + 5) \div 10
    ELSE (2 * Abs(parseFloat(line[1])) + Abs(parseFloat(line[2])))
            \div (2 * Abs(parseFloat(line[2])))

\* The locals of detectFPS and fps of convertVideoToMP4 (-1: not yet set)
Detecting(probe) ==
    [probe |-> probe, i |-> 1, detected |-> -1, fps |-> -1]
    @@ [Idle EXCEPT !.kind = "fps", !.pc = "probe"]

\* cmd.Output() returns: with an error detectFPS returns 0
ProbeRun(g) ==
    /\ gor[g].pc = "probe"
    /\ IF gor[g].probe.err
       THEN gor' = [gor EXCEPT ![g].detected = 0, ![g].pc = "detected"]
       ELSE gor' = [gor EXCEPT ![g].pc = "lines"]
    /\ UNCHANGED <<fs, locks, config, held, cameraSem, tasks, sched>>

\* One round of for _, line := range lines, or return 0 after the last
FpsLine(g) ==
    /\ gor[g].pc = "lines"
    /\ IF gor[g].i > Len(gor[g].probe.lines)
       THEN gor' = [gor EXCEPT ![g].detected = 0, ![g].pc = "detected"]
       ELSE IF HasRate(gor[g].probe.lines[gor[g].i])
            THEN gor' = [gor EXCEPT ![g].detected = RoundedRate(gor[g].probe.lines[gor[g].i]),
                                    ![g].pc = "detected"]
            ELSE gor' = [gor EXCEPT ![g].i = @ + 1]
    /\ UNCHANGED <<fs, locks, config, held, cameraSem, tasks, sched>>

\* Mutant of FrameRate: no fallback
FrameRateNoDefault(g) ==
    /\ gor[g].pc = "detected"
    /\ gor' = [gor EXCEPT ![g].fps = gor[g].detected, ![g].pc = "done"]
    /\ UNCHANGED <<fs, locks, config, held, cameraSem, tasks, sched>>

\* convertVideoToMP4: fps := detectFPS(...); if fps == 0 { fps = 20 }; fps is
\* the -framerate argument of ffmpeg
FrameRate(g) ==
    /\ gor[g].pc = "detected"
    /\ gor' = [gor EXCEPT ![g].fps = IF gor[g].detected = 0 THEN DefaultFPS
                                     ELSE gor[g].detected,
                          ![g].pc = "done"]
    /\ UNCHANGED <<fs, locks, config, held, cameraSem, tasks, sched>>

\* the goroutines that have the frame rate for ffmpeg
Rated == {g \in AllG : gor[g].kind = "fps" /\ gor[g].pc = "done"}

(* ------------------------- convertVideoToMP4 --------------------------- *)

\* After the download: stripHXVSHeaders, the private clean-video temp file is
\* created, written and closed, detectFPS (ffprobe, default 20), then
\* ffmpeg -y ... destPath is started: it opens destPath and writes the
\* container as it goes
StartFfmpeg(g) ==
    /\ gor[g].pc = "clean"
    /\ \E o \in {"ok", "errCreateTemp", "errWrite", "errClose"} :
         IF o = "ok"
         THEN /\ gor' = [gor EXCEPT ![g].pc = "ffmpeg"]
              /\ fs' = [fs EXCEPT ![gor[g].dest] = File("partial", g)]
              /\ UNCHANGED <<held, tasks>>
         ELSE Return(g, "err", fs)
    /\ UNCHANGED <<locks, config, cameraSem, sched>>

\* cmd.CombinedOutput() returns: exit status 0 or not
FfmpegExit(g) ==
    /\ gor[g].pc = "ffmpeg"
    /\ \E ok \in BOOLEAN :
         IF ok
         THEN /\ gor' = [gor EXCEPT ![g].pc = "rename"]
              /\ fs' = [fs EXCEPT ![gor[g].dest] = File("complete", g)]
              /\ UNCHANGED <<held, tasks>>
         ELSE Return(g, "err", fs)
    /\ UNCHANGED <<locks, config, cameraSem, sched>>

\* The steps of a cache call in progress
CacheStep(g) ==
    \/ Lock(g)
    \/ DoubleCheck(g)
    \/ Acquire(g)
    \/ Response(g)
    \/ WriteTemp(g)
    \/ StartFfmpeg(g)
    \/ FfmpegExit(g)
    \/ Rename(g)

\* The locals of one call of convertVideoToMP4 for a camera video of bytes
\* data: clean is the file at tempFile.Name(), made says CreateTemp succeeded
Conversion(data) ==
    [data |-> data, clean |-> Absent, made |-> FALSE, fps |-> -1]
    @@ [Idle EXCEPT !.kind = "convert", !.pc = "fetch"]

\* Mutant of ConvertReturned: the temp file is removed on success only
ConvertReturnedKeeps(rec, err) ==
    [rec EXCEPT !.pc = "done", !.ret = err,
                !.clean = IF err = "ok" THEN Absent ELSE @]

\* return: the deferred tempFile.Close() and os.Remove(tempFile.Name()) run
\* when they were registered, that is after CreateTemp succeeded
ConvertReturned(rec, err) ==
    [rec EXCEPT !.pc = "done", !.ret = err, !.clean = Absent]

\* rawData, err := fetchFromCamera(sourceURL)
ConvertFetch(g) ==
    /\ gor[g].pc = "fetch"
    /\ \E ok \in BOOLEAN :
         gor' = [gor EXCEPT ![g] = IF ok THEN [@ EXCEPT !.pc = "create"]
                                   ELSE [@ EXCEPT !.pc = "done", !.ret = "errFetch"]]
    /\ UNCHANGED <<fs, locks, config, held, cameraSem, tasks, sched>>

\* os.CreateTemp("", "clean-video-*."+inputFormat), and the two defers
ConvertCreateTemp(g) ==
    /\ gor[g].pc = "create"
    /\ \E ok \in BOOLEAN :
         gor' = [gor EXCEPT ![g] =
                    IF ok THEN [@ EXCEPT !.pc = "write", !.made = TRUE,
                                         !.clean = <<"open", <<>>>>]
                    ELSE [@ EXCEPT !.pc = "done", !.ret = "errCreateTemp"]]
    /\ UNCHANGED <<fs, locks, config, held, cameraSem, tasks, sched>>

\* tempFile.Write(cleanedData): all of it, or an error after a part of it
ConvertWrite(g) ==
    /\ gor[g].pc = "write"
    /\ \E ok \in BOOLEAN :
         gor' = [gor EXCEPT ![g] =
                    IF ok THEN [@ EXCEPT !.pc = "close",
                                         !.clean = <<"open", stripHXVSHeaders(gor[g].data)>>]
                    ELSE ConvertReturned(@, "errWrite")]
    /\ UNCHANGED <<fs, locks, config, held, cameraSem, tasks, sched>>

\* tempFile.Close()
ConvertClose(g) ==
    /\ gor[g].pc = "close"
    /\ \E ok \in BOOLEAN :
         gor' = [gor EXCEPT ![g] =
                    IF ok THEN [@ EXCEPT !.pc = "probe", !.clean = <<"closed", gor[g].clean[2]>>]
                    ELSE ConvertReturned(@, "errClose")]
    /\ UNCHANGED <<fs, locks, config, held, cameraSem, tasks, sched>>

\* fps := detectFPS(tempFile.Name()), 0 when the probe fails; 20 then
ConvertProbe(g) ==
    /\ gor[g].pc = "probe"
    /\ \E detected \in {0, 1, 25, 30} :
         gor' = [gor EXCEPT ![g].fps = IF detected = 0 THEN DefaultFPS ELSE detected,
                            ![g].pc = "ffmpeg"]
    /\ UNCHANGED <<fs, locks, config, held, cameraSem, tasks, sched>>

\* cmd.CombinedOutput() of ffmpeg: exit status 0 or not
ConvertFfmpeg(g) ==
    /\ gor[g].pc = "ffmpeg"
    /\ \E ok \in BOOLEAN :
         gor' = [gor EXCEPT ![g] = ConvertReturned(@, IF ok THEN "ok" ELSE "errFfmpeg")]
    /\ UNCHANGED <<fs, locks, config, held, cameraSem, tasks, sched>>

\* the goroutines whose convertVideoToMP4 has returned
Converted == {g \in AllG : gor[g].kind = "convert" /\ gor[g].pc = "done"}

(* --------------------------- HTTP handlers ----------------------------- *)

\* http.Error(w, ..., http.StatusBadRequest); return
BadRequest(g, rec) ==
    /\ gor[g].pc = "idle"
    /\ gor' = [gor EXCEPT ![g] = [rec EXCEPT !.pc = "done", !.ret = "400"]]
    /\ UNCHANGED <<fs, locks, config, held, cameraSem, tasks, sched>>

\* handleProxy: ext := filepath.Ext(targetURL), ".bin" when it is empty
ProxyExt(targetURL) == IF Ext(targetURL) = "" THEN ".bin" ELSE Ext(targetURL)

\* Mutant of ProxyAllowed: the prefix check is left out
ProxyAllowedNoCheck(targetURL) == targetURL # <<>>

\* handleProxy: the url parameter is present and is for our camera
ProxyAllowed(targetURL) ==
    /\ targetURL # <<>>
    /\ HasPrefix(targetURL, config.CameraURL)

\* handleProxy for the request parameter url = targetURL:
\* mediaCache.Get(targetURL, ext, fetchFromCamera), ext ".bin" when the URL
\* has no extension
handleProxy(g, targetURL) ==
    LET rec == [Idle EXCEPT !.kind = "proxy", !.url = targetURL]
    IN  IF ProxyAllowed(targetURL)
        THEN Call(g, [rec EXCEPT !.fn = "Get", !.suffix = ProxyExt(targetURL)], tasks)
        ELSE BadRequest(g, rec)

\* handleVideoProxy: targetURL := config.CameraURL + "/" + decodedPath
VideoTarget(path) == config.CameraURL \o <<"/">> \o QueryUnescape(path)

\* handleVideoProxy for the request path /api/video/{path}.mp4:
\* mediaCache.GetWithFile(targetURL, ".mp4", convertVideoToMP4)
handleVideoProxy(g, path) ==
    LET rec == [Idle EXCEPT !.kind = "video"]
    IN  IF QueryUnescapeFails(path)
        THEN BadRequest(g, rec)
        ELSE IF ~HasPrefix(VideoTarget(path), config.CameraURL)
             THEN BadRequest(g, [rec EXCEPT !.url = VideoTarget(path)])
             ELSE Call(g, [rec EXCEPT !.fn = "GetWithFile", !.url = VideoTarget(path),
                                      !.suffix = ".mp4"], tasks)

(* ------------------- fetchAllMedia / fetchDirectory -------------------- *)

\* The catalog of the SD card: one date directory whose images000 holds the
\* images sched.images (ImageURL, in SpecRun also OtherImageURL) and whose
\* record000 holds RawVideoURL; matchVideoThumbnails makes ImageURL the
\* video's thumbnail.
Videos(rec) == IF rec.vids THEN <<RawVideoURL>> ELSE <<>>

\* The semaphore-limited loop of the preCacheVideos started by goroutine g's
\* fetchAllMedia
LoopOf(g) == IF g = BG THEN NH + sched.runs ELSE g

\* fetchAllMedia is entered: fetchDirectory("") sends its request with
\* client.Do; cameraSem is not involved
Listing(kind) == [Idle EXCEPT !.kind = kind, !.pc = "list", !.stage = "root"]

\* The go func() bodies of preCacheVideosSync and preCacheImages for the
\* media of a run: one per video, one per video thumbnail, one per image
RunItems(rec) ==
    {[kind |-> "sync", url |-> RawVideoURL, owner |-> 0] : x \in {1} \cap {IF rec.vids THEN 1 ELSE 0}}
    \cup {[kind |-> "thumb", url |-> ImageURL, owner |-> 0] :
              x \in {1} \cap {IF rec.vids /\ rec.imgs THEN 1 ELSE 0}}
    \cup {[kind |-> "image", url |-> u, owner |-> 0] :
              u \in {u \in sched.images : rec.imgs}}

\* defer b.running.Unlock() and the return of runCacheJob to the loop of
\* Start; after the first run the loop creates its ticker
RunReturns ==
    /\ sched' = [sched EXCEPT !.running = FALSE, !.pc = "select", !.ticker = TRUE,
                              !.active = @ - 1]
    /\ gor' = [gor EXCEPT ![BG] = Idle]

\* Mutant of ListingFailed: runCacheJob returns on the listing error without
\* releasing the run-in-progress flag
ListingFailedNoUnlock(g) ==
    IF g = BG
    THEN /\ gor' = [gor EXCEPT ![BG] = Idle]
         /\ UNCHANGED <<tasks, sched>>
    ELSE /\ gor' = [gor EXCEPT ![g].pc = "done", ![g].ret = "err"]
         /\ UNCHANGED <<tasks, sched>>

\* fetchAllMedia returns an error (the root listing failed): handleGetMedia
\* answers 500, runCacheJob logs and returns
ListingFailed(g) ==
    IF g = BG
    THEN /\ RunReturns
         /\ UNCHANGED tasks
    ELSE /\ gor' = [gor EXCEPT ![g].pc = "done", ![g].ret = "err"]
         /\ UNCHANGED <<tasks, sched>>

\* fetchAllMedia returns the media: go preCacheVideos(allMedia), then
\* handleGetMedia encodes the list; runCacheJob starts preCacheVideosSync
\* and preCacheImages, which start a goroutine per item, and waits
ListingDone(g, rec) ==
    LET t == [tasks EXCEPT !.loop[LoopOf(g)] = [todo |-> Videos(rec), sem |-> 0]]
    IN  IF g = BG
        THEN /\ gor' = [gor EXCEPT ![g] = [Idle EXCEPT !.kind = "bg", !.pc = "wait"]]
             /\ tasks' = [t EXCEPT !.pend = @ \cup RunItems(rec),
                                   !.wg = Cardinality(RunItems(rec))]
             /\ UNCHANGED sched
        ELSE /\ gor' = [gor EXCEPT ![g] = [rec EXCEPT !.pc = "done", !.ret = "ok"]]
             /\ tasks' = t
             /\ UNCHANGED sched

\* A fetchDirectory request completes (ok: status 200 and the body read) and
\* fetchAllMedia / fetchDateMedia go on: only a failed root listing is an
\* error, the other failures are logged and skipped
ListResponse(g) ==
    /\ gor[g].pc = "list"
    /\ \E ok \in BOOLEAN :
         CASE gor[g].stage = "root" ->
                IF ok
                THEN /\ gor' = [gor EXCEPT ![g].stage = "date"]
                     /\ UNCHANGED <<tasks, sched>>
                ELSE ListingFailed(g)
           [] gor[g].stage = "date" ->
                IF ok
                THEN /\ gor' = [gor EXCEPT ![g].stage = "images"]
                     /\ UNCHANGED <<tasks, sched>>
                ELSE ListingDone(g, gor[g])
           [] gor[g].stage = "images" ->
                /\ gor' = [gor EXCEPT ![g].stage = "record", ![g].imgs = ok]
                /\ UNCHANGED <<tasks, sched>>
           [] OTHER -> ListingDone(g, [gor[g] EXCEPT !.vids = ok])
    /\ UNCHANGED <<fs, locks, config, held, cameraSem>>

\* handleGetMedia: fetchAllMedia()
handleGetMedia(g) ==
    /\ gor[g].pc = "idle"
    /\ gor' = [gor EXCEPT ![g] = Listing("media")]
    /\ UNCHANGED <<fs, locks, config, held, cameraSem, tasks, sched>>

(* ------------------------------ parseMedia ---------------------------- *)

\* A file name is a sequence of tokens: a letter (A, P or X), two digits,
\* "_", or an extension
Pairs == {"10", "11", "21", "25", "56"}

Exts == {".jpg", ".264", ".265", ".txt"}

\* the number two digits stand for
Num(pair) ==
    CASE pair = "10" -> 10
      [] pair = "11" -> 11
      [] pair = "21" -> 21
      [] pair = "25" -> 25
      [] pair = "56" -> 56

\* %02d
Fmt2(n) == IF n < 10 THEN "0" \o ToString(n) ELSE ToString(n)

\* the year, month and day (or hour, minute and second) digits of the names
DateDigits == {<<"25", "11", "21">>, <<"25", "21", "11">>, <<"11", "11", "56">>}

TimeDigits == {<<"21", "25", "56">>, <<"21", "56", "11">>, <<"25", "11", "11">>}

\* File names of a directory listing: camera names AYYMMDDHHMMSSXX.jpg and
\* AYYMMDD_HHMMSS_HHMMSS.264, and names that are not the camera's
Names ==
    {pre \o stamp \o count \o ext :
        pre \in {<<>>, <<"A">>, <<"P">>, <<"X">>, <<"X", "A">>},
        stamp \in {<<>>} \cup DateDigits
                  \cup {d \o t : d \in DateDigits, t \in TimeDigits}
                  \cup {d \o <<"_">> \o t \o <<"_">> \o e :
                            d \in DateDigits, t \in TimeDigits, e \in TimeDigits},
        count \in {<<>>, <<"11">>},
        ext \in {<<>>} \cup {<<x>> : x \in Exts}} \ {<<>>}

\* strings.HasSuffix(name, ext)
HasSuffix(name, ext) == name # <<>> /\ name[Len(name)] = ext

\* filepath.Ext(name)
NameExt(name) == IF name # <<>> /\ name[Len(name)] \in Exts THEN name[Len(name)] ELSE ""

\* positions where `[AP](\d{2}){6}` matches
ImageMatches(name) ==
    {i \in 1..(Len(name) - 6) :
        /\ name[i] \in {"A", "P"}
        /\ \A j \in 1..6 : name[i + j] \in Pairs}

\* positions where `[AP](\d{2}){3}_(\d{2}){3}_(\d{2}){3}` matches
VideoMatches(name) ==
    {i \in 1..(Len(name) - 11) :
        /\ name[i] \in {"A", "P"}
        /\ \A j \in {1, 2, 3, 5, 6, 7, 9, 10, 11} : name[i + j] \in Pairs
        /\ name[i + 4] = "_" /\ name[i + 8] = "_"}

\* regexp FindStringSubmatch: the leftmost match
Leftmost(S) == CHOOSE i \in S : \A j \in S : i <= j

\* parseTimestamp: "20YY-MM-DD HH:MM:SS", for a video followed by
\* " - HH:MM:SS"; "" when the name does not match
parseTimestamp(name, mediaType) ==
    IF mediaType = "image"
    THEN IF ImageMatches(name) = {} THEN <<>>
         ELSE LET i == Leftmost(ImageMatches(name))
              IN  <<"20", name[i + 1], "-", name[i + 2], "-", name[i + 3], " ",
                    name[i + 4], ":", name[i + 5], ":", name[i + 6]>>
    ELSE IF VideoMatches(name) = {} THEN <<>>
         ELSE LET i == Leftmost(VideoMatches(name))
              IN  <<"20", name[i + 1], "-", name[i + 2], "-", name[i + 3], " ",
                    name[i + 5], ":", name[i + 6], ":", name[i + 7], " - ",
                    name[i + 9], ":", name[i + 10], ":", name[i + 11]>>

DaysIn(year, month) ==
    IF month \in {4, 6, 9, 11} THEN 30
    ELSE IF month # 2 THEN 31
    ELSE IF year % 4 = 0 /\ (year % 100 # 0 \/ year % 400 = 0) THEN 29 ELSE 28

\* time.Parse("2006-01-02 15:04:05", s): the instant, or NoInstant when s has
\* another form or a field is out of range
NoInstant == [year |-> 0, month |-> 0, day |-> 0, hour |-> 0, min |-> 0, sec |-> 0]

ParseTime(s) ==
    IF \/ Len(s) # 12
       \/ <<s[1], s[3], s[5], s[7], s[9], s[11]>> # <<"20", "-", "-", " ", ":", ":">>
       \/ \E j \in {2, 4, 6, 8, 10, 12} : s[j] \notin Pairs
    THEN NoInstant
    ELSE LET t == [year |-> 2000 + Num(s[2]), month |-> Num(s[4]), day |-> Num(s[6]),
                   hour |-> Num(s[8]), min |-> Num(s[10]), sec |-> Num(s[12])]
         IN  IF /\ t.month \in 1..12 /\ t.day \in 1..DaysIn(t.year, t.month)
                /\ t.hour < 24 /\ t.min < 60 /\ t.sec < 60
             THEN t
             ELSE NoInstant

\* strings.Split(timestamp, " - ")[0]
BeforeDash(timestamp) ==
    LET at == {i \in 1..Len(timestamp) : timestamp[i] = " - "}
    IN  IF at = {} THEN timestamp ELSE SubSeq(timestamp, 1, Leftmost(at) - 1)

\* generateDownloadFilename: <camera>_yyyy-MM-dd_HH-mm-ss.ext, or the
\* original name when the start time does not parse
generateDownloadFilename(timestamp, originalName, mediaType) ==
    LET t == ParseTime(BeforeDash(timestamp))
        ext == IF NameExt(originalName) = ""
               THEN IF mediaType = "video" THEN ".mp4" ELSE ".jpg"
               ELSE IF mediaType = "video" THEN ".mp4" ELSE NameExt(originalName)
    IN  IF t = NoInstant THEN originalName
        ELSE <<config.CameraName, "_", ToString(t.year), "-", Fmt2(t.month), "-",
               Fmt2(t.day), "_", Fmt2(t.hour), "-", Fmt2(t.min), "-", Fmt2(t.sec), ext>>

\* parseMedia: trigger
Trigger(name) == IF name # <<>> /\ name[1] = "A" THEN "alarm" ELSE "periodic"

\* parseMedia(entry, datePath, mediaType)
parseMedia(name, dir, mediaType) ==
    [name |-> name, path |-> dir \o <<"/">> \o name,
     url |-> config.CameraURL \o <<"/">> \o dir \o <<"/">> \o name,
     proxyUrl |-> IF mediaType = "video"
                  THEN <<"/api/video/">> \o QueryEscape(dir \o <<"/">> \o name) \o <<".mp4">>
                  ELSE <<>>,
     type |-> mediaType, trigger |-> Trigger(name),
     timestamp |-> parseTimestamp(name, mediaType),
     downloadFilename |->
         generateDownloadFilename(parseTimestamp(name, mediaType), name, mediaType)]

\* fetchDateMedia: the items of the entries of images000 (the .jpg files) or
\* record000 (the .264 and .265 files)
EntryItems(names, dir, sub) ==
    LET keep(n) == IF sub = "images000" THEN HasSuffix(n, ".jpg")
                   ELSE HasSuffix(n, ".264") \/ HasSuffix(n, ".265")
        mediaType == IF sub = "images000" THEN "image" ELSE "video"
        F[i \in 0..Len(names)] ==
            IF i = 0 THEN <<>>
            ELSE IF keep(names[i])
                 THEN Append(F[i - 1], parseMedia(names[i], dir \o <<"/", sub>>, mediaType))
                 ELSE F[i - 1]
    IN  F[Len(names)]

\* The locals of a fetchDateMedia that has the listing of a subdirectory
Parsing(names, sub) ==
    [names |-> names, sub |-> sub, media |-> <<>>]
    @@ [Idle EXCEPT !.kind = "parse", !.pc = "entries"]

\* The loop over the entries of the listing
ParseEntries(g) ==
    /\ gor[g].pc = "entries"
    /\ gor' = [gor EXCEPT ![g].pc = "done",
                          ![g].media = EntryItems(gor[g].names, <<"date">>, gor[g].sub)]
    /\ UNCHANGED <<fs, locks, config, held, cameraSem, tasks, sched>>

\* the goroutines that have the items of a listing
Parsed == {g \in AllG : gor[g].kind = "parse" /\ gor[g].pc = "done"}

(* ------------------------- matchVideoThumbnails ------------------------ *)

\* A timestamp that time.Parse("2006-01-02 15:04:05", ...) rejects: "" when
\* the file name did not match, or digits that are no date
NoTime == -2

\* time.Time{}, before every instant
ZeroTime == NoTime - 1

Times == 0..MaxTime

\* MediaItem: Type and Timestamp; an image has one instant, a video a start
\* and an end on the start's date
ImageItems == {[type |-> "image", ts |-> t, end |-> NoTime] : t \in Times \cup {NoTime}}

VideoItems == {[type |-> "video", ts |-> s, end |-> e] : s, e \in Times \cup {NoTime}}

MediaLists == UNION {[1..n -> ImageItems \cup VideoItems] : n \in 0..MaxMedia}

mustParseTime(ts) == IF ts = NoTime THEN ZeroTime ELSE ts

\* images[media[i].Timestamp] = &media[i] for every image, in order: a later
\* image replaces an earlier one with the same timestamp
ImageIndex(media) ==
    LET imgs == {j \in 1..Len(media) : media[j].type = "image"}
    IN  [t \in {media[j].ts : j \in imgs} |->
            CHOOSE j \in imgs : /\ media[j].ts = t
                                /\ \A h \in imgs : media[h].ts = t => h <= j]

\* The locals of matchVideoThumbnails(media) after the index is built;
\* thumb[i] is the item whose URL is media[i].ThumbnailURL, 0 for none; back
\* is where the function returns to
Matching(media) ==
    [media |-> media, images |-> ImageIndex(media), i |-> 1, todo |-> {},
     duringVideo |-> 0, beforeVideo |-> 0, thumb |-> [j \in 1..Len(media) |-> 0],
     back |-> "done"]
    @@ [Idle EXCEPT !.kind = "match", !.pc = "match"]

\* for i := range media: items that are no video, or whose timestamp does
\* not parse, are passed over; the loop ends after the last item
MatchNext(g) ==
    /\ gor[g].pc = "match"
    /\ IF gor[g].i > Len(gor[g].media)
       THEN gor' = [gor EXCEPT ![g].pc = gor[g].back]
       ELSE LET m == gor[g].media[gor[g].i]
            IN  IF m.type # "video" \/ m.ts = NoTime \/ m.end = NoTime
                THEN gor' = [gor EXCEPT ![g].i = @ + 1]
                ELSE gor' = [gor EXCEPT ![g].pc = "images",
                                        ![g].todo = DOMAIN gor[g].images,
                                        ![g].duringVideo = 0, ![g].beforeVideo = 0]
    /\ UNCHANGED <<fs, locks, config, held, cameraSem, tasks, sched>>

\* Mutant of During: the image seen last wins, whatever its timestamp
DuringLast(rec, img) ==
    LET t == rec.media[img].ts
        v == rec.media[rec.i]
    IN  IF t >= v.ts /\ t < v.end THEN img ELSE rec.duringVideo

\* Mutant of During: the image of the window that is seen first stays
DuringFirst(rec, img) ==
    LET t == rec.media[img].ts
        v == rec.media[rec.i]
    IN  IF t >= v.ts /\ t < v.end /\ rec.duringVideo = 0 THEN img ELSE rec.duringVideo

\* duringVideo after image img: the earliest image so far at or after the
\* start and before the end
During(rec, img) ==
    LET t == rec.media[img].ts
        v == rec.media[rec.i]
    IN  IF /\ t >= v.ts /\ t < v.end
           /\ \/ rec.duringVideo = 0
              \/ t < mustParseTime(rec.media[rec.duringVideo].ts)
        THEN img
        ELSE rec.duringVideo

\* beforeVideo after image img: the image one second before the start
Before(rec, img) ==
    IF rec.media[img].ts = rec.media[rec.i].ts - 1 THEN img ELSE rec.beforeVideo

\* for _, img := range images: the map is visited in any order; an image
\* whose timestamp does not parse is passed over
MatchImage(g) ==
    /\ gor[g].pc = "images"
    /\ \E k \in gor[g].todo :
         LET img == gor[g].images[k]
         IN  IF k = NoTime
             THEN gor' = [gor EXCEPT ![g].todo = @ \ {k}]
             ELSE gor' = [gor EXCEPT ![g].todo = @ \ {k},
                                     ![g].duringVideo = During(gor[g], img),
                                     ![g].beforeVideo = Before(gor[g], img)]
    /\ UNCHANGED <<fs, locks, config, held, cameraSem, tasks, sched>>

\* bestMatch: duringVideo, else beforeVideo, else nil
BestMatch(rec) == IF rec.duringVideo # 0 THEN rec.duringVideo ELSE rec.beforeVideo

\* After the last image: media[i].ThumbnailURL is set from bestMatch
MatchAssign(g) ==
    /\ gor[g].pc = "images"
    /\ gor[g].todo = {}
    /\ gor' = [gor EXCEPT ![g].thumb[gor[g].i] = BestMatch(gor[g]),
                          ![g].i = @ + 1, ![g].pc = "match"]
    /\ UNCHANGED <<fs, locks, config, held, cameraSem, tasks, sched>>

\* the goroutines that are in matchVideoThumbnails or have returned from it
Matchers == {g \in AllG : gor[g].kind = "match"}

(* -------------------- fetchAllMedia: the catalog ----------------------- *)

\* The SD card as the camera lists it: the root has a file and the date
\* directories; a date directory has the entries of its shape ("file" is an
\* entry that is no directory); images000 and record000 have the camera's
\* files and one other file. ok, imagesOk and recordOk say whether the camera
\* answers the listing of that directory.
Shapes ==
    {<<"images000", "record000">>, <<"record000", "images000">>, <<"images000">>,
     <<"other", "file", "record000">>, <<>>}

DateDirs == [ok : BOOLEAN, shape : Shapes, imagesOk : BOOLEAN, recordOk : BOOLEAN]

Cards == [rootOk : BOOLEAN, dates : UNION {[1..n -> DateDirs] : n \in 0..MaxDates}]

\* the day of the d-th date directory
DayOf(d) == IF d = 1 THEN "21" ELSE "25"

DateDir(d) == <<"2025-11-" \o DayOf(d)>>

SubNames(d, sub) ==
    IF sub = "images000"
    THEN <<<<"A", "25", "11", DayOf(d), "21", "25", "56", "11", ".jpg">>, <<"X", ".txt">>>>
    ELSE <<<<"A", "25", "11", DayOf(d), "_", "21", "25", "56", "_", "21", "56", "11", ".264">>,
           <<"X", ".txt">>,
           <<"P", "25", "11", DayOf(d), "_", "21", "56", "11", "_", "21", "56", "56", ".265">>>>

\* An instant in seconds (months of 31 days)
Seconds(t) ==
    IF t = NoInstant THEN NoTime
    ELSE ((((t.year - 2000) * 12 + t.month) * 31 + t.day) * 24 + t.hour) * 3600
         + t.min * 60 + t.sec

\* Mutant of View: an end whose time of day is before the start's is placed
\* on the day after the start
ViewNextDay(item) ==
    LET ts == item.timestamp
    IN  IF item.type = "image"
        THEN [type |-> "image", ts |-> Seconds(ParseTime(ts)), end |-> NoTime]
        ELSE IF Len(ts) # 18
        THEN [type |-> "video", ts |-> NoTime, end |-> NoTime]
        ELSE LET start == Seconds(ParseTime(SubSeq(ts, 1, 12)))
                 end == Seconds(ParseTime(SubSeq(ts, 1, 7) \o SubSeq(ts, 14, 18)))
             IN  [type |-> "video", ts |-> start,
                  end |-> IF end # NoTime /\ end < start THEN end + 86400 ELSE end]

\* matchVideoThumbnails parses the timestamps: an image's, a video's start,
\* and a video's end on the date of the start (startTime[:11]+endTime)
View(item) ==
    LET ts == item.timestamp
    IN  IF item.type = "image"
        THEN [type |-> "image", ts |-> Seconds(ParseTime(ts)), end |-> NoTime]
        ELSE IF Len(ts) # 18
        THEN [type |-> "video", ts |-> NoTime, end |-> NoTime]
        ELSE [type |-> "video", ts |-> Seconds(ParseTime(SubSeq(ts, 1, 12))),
              end |-> Seconds(ParseTime(SubSeq(ts, 1, 7) \o SubSeq(ts, 14, 18)))]

Views(items) == [j \in 1..Len(items) |-> View(items[j])]

\* Mutant of WithThumbs: the image's URL is appended as it is
WithThumbsRaw(items, thumb) ==
    [j \in 1..Len(items) |->
        [thumbnailUrl |-> IF thumb[j] = 0 THEN <<>>
                          ELSE <<"/api/proxy?url=">> \o items[thumb[j]].url]
        @@ items[j]]

\* the items with the ThumbnailURL matchVideoThumbnails gave them
WithThumbs(items, thumb) ==
    [j \in 1..Len(items) |->
        [thumbnailUrl |-> IF thumb[j] = 0 THEN <<>>
                          ELSE <<"/api/proxy?url=">> \o QueryEscape(items[thumb[j]].url)]
        @@ items[j]]

\* The locals of fetchAllMedia and of the fetchDateMedia it calls, asking the
\* camera with card c
Cataloging(c) ==
    [camera |-> c, dates |-> <<>>, subs |-> <<>>, d |-> 0, items |-> <<>>,
     allMedia |-> <<>>]
    @@ [Matching(<<>>) EXCEPT !.kind = "catalog", !.pc = "root", !.back = "matched"]

\* fetchAllMedia: fetchDirectory(""); an error is returned, else the loop
\* over the entries that are directories starts
CatalogRoot(g) ==
    /\ gor[g].pc = "root"
    /\ IF gor[g].camera.rootOk
       THEN gor' = [gor EXCEPT ![g].pc = "date",
                               ![g].dates = [d \in 1..Len(gor[g].camera.dates) |-> d]]
       ELSE gor' = [gor EXCEPT ![g].pc = "done", ![g].ret = "err"]
    /\ UNCHANGED <<fs, locks, config, held, cameraSem, tasks, sched>>

\* entries of a date listing that are directories
Directories(shape) == SelectSeq(shape, LAMBDA e : e # "file")

\* the URLs of the videos of a list
VideoURLsOf(media) ==
    LET F[i \in 0..Len(media)] ==
            IF i = 0 THEN <<>>
            ELSE IF media[i].type = "video" THEN Append(F[i - 1], media[i].url)
            ELSE F[i - 1]
    IN  F[Len(media)]

\* Mutant of DateFailed: a date directory that cannot be listed ends the build
DateFailedFatal(g) ==
    /\ gor' = [gor EXCEPT ![g].pc = "done", ![g].ret = "err"]
    /\ UNCHANGED tasks

\* fetchDateMedia returned an error: logged, the loop continues
DateFailed(g) ==
    /\ gor' = [gor EXCEPT ![g].dates = Tail(@)]
    /\ UNCHANGED tasks

\* The loop of fetchAllMedia: fetchDateMedia(date.Name) lists the date
\* directory; after the last one go preCacheVideos(allMedia) and the return
CatalogDate(g) ==
    /\ gor[g].pc = "date"
    /\ IF gor[g].dates = <<>>
       THEN /\ gor' = [gor EXCEPT ![g].pc = "done", ![g].ret = "ok"]
            /\ tasks' = [tasks EXCEPT !.loop[LoopOf(g)] =
                             [todo |-> VideoURLsOf(gor[g].allMedia), sem |-> 0]]
       ELSE LET d == Head(gor[g].dates)
            IN  IF gor[g].camera.dates[d].ok
                THEN /\ gor' = [gor EXCEPT ![g].pc = "sub", ![g].d = d,
                                           ![g].dates = Tail(@), ![g].items = <<>>,
                                           ![g].subs = Directories(gor[g].camera.dates[d].shape)]
                     /\ UNCHANGED tasks
                ELSE DateFailed(g)
    /\ UNCHANGED <<fs, locks, config, held, cameraSem, sched>>

\* whether the camera answers the listing of subdirectory sub of date d
SubOk(c, d, sub) ==
    IF sub = "images000" THEN c.dates[d].imagesOk ELSE c.dates[d].recordOk

\* The loop of fetchDateMedia over the directories of the date: images000 and
\* record000 are listed and their files added, a failure is logged and the
\* directory passed over; after the last one matchVideoThumbnails(media)
CatalogSub(g) ==
    /\ gor[g].pc = "sub"
    /\ IF gor[g].subs = <<>>
       THEN LET m == Matching(Views(gor[g].items))
            IN  gor' = [gor EXCEPT ![g].pc = "match", ![g].media = m.media,
                                   ![g].images = m.images, ![g].i = 1,
                                   ![g].thumb = m.thumb]
       ELSE LET sub == Head(gor[g].subs)
            IN  IF sub \in {"images000", "record000"} /\ SubOk(gor[g].camera, gor[g].d, sub)
                THEN gor' = [gor EXCEPT
                               ![g].subs = Tail(@),
                               ![g].items = @ \o EntryItems(SubNames(gor[g].d, sub),
                                                            DateDir(gor[g].d), sub)]
                ELSE gor' = [gor EXCEPT ![g].subs = Tail(@)]
    /\ UNCHANGED <<fs, locks, config, held, cameraSem, tasks, sched>>

\* fetchDateMedia returns the media: allMedia = append(allMedia, dateMedia...)
CatalogMatched(g) ==
    /\ gor[g].pc = "matched"
    /\ gor' = [gor EXCEPT ![g].pc = "date",
                          ![g].allMedia = @ \o WithThumbs(gor[g].items, gor[g].thumb)]
    /\ UNCHANGED <<fs, locks, config, held, cameraSem, tasks, sched>>

\* the goroutines whose fetchAllMedia has returned
Cataloged == {g \in AllG : gor[g].kind = "catalog" /\ gor[g].pc = "done"}

(* -------------------------- main: configuration ------------------------ *)

\* int and time.Duration are 64 bits wide: a value is written as its eight
\* bytes in two's complement, the lowest first
IntBytes == 8
Byte == 256

\* the int64 of a small natural number
Int64(n) == [i \in 1..IntBytes |-> IF i = 1 THEN n ELSE 0]

\* time.Minute, 60000000000 nanoseconds
Minute == <<0, 88, 71, 248, 13, 0, 0, 0>>

\* What the two variables may hold in the environment
EnvValues ==
    {"", "abc", "0", "-3", "1", "10", "7days", "153722868", "307445735",
     "307445736", "9223372036854775807", "99999999999999999999"}

\* fmt.Sscanf(value, "%d", &intValue): the integer at the start of value,
\* <<>> when there is none or it does not fit 64 bits (intValue is left alone)
ScanInt(value) ==
    CASE value = "0" -> Int64(0)
      [] value = "-3" -> <<253, 255, 255, 255, 255, 255, 255, 255>>
      [] value = "1" -> Int64(1)
      [] value = "10" -> Int64(10)
      [] value = "7days" -> Int64(7)
      [] value = "153722868" -> <<244, 159, 41, 9, 0, 0, 0, 0>>
      [] value = "307445735" -> <<231, 63, 83, 18, 0, 0, 0, 0>>
      [] value = "307445736" -> <<232, 63, 83, 18, 0, 0, 0, 0>>
      [] value = "9223372036854775807" -> <<255, 255, 255, 255, 255, 255, 255, 127>>
      [] OTHER -> <<>>

getEnvInt(env, key, defaultValue) ==
    IF env[key] = ""
    THEN defaultValue
    ELSE IF ScanInt(env[key]) = <<>> THEN defaultValue ELSE ScanInt(env[key])

\* the sum of a[i] * b[k - i] over the bytes i = 0..k (bytes counted from 0)
RECURSIVE Column(_, _, _, _)
Column(a, b, k, i) ==
    IF i > k THEN 0 ELSE a[i + 1] * b[k - i + 1] + Column(a, b, k, i + 1)

\* column k of the product with the carry of the columns below
RECURSIVE Carried(_, _, _)
Carried(a, b, k) ==
    Column(a, b, k, 0) + (IF k = 0 THEN 0 ELSE Carried(a, b, k - 1) \div Byte)

\* a * b of two int64, the bits above 64 dropped
Mul64(a, b) == [k \in 1..IntBytes |-> Carried(a, b, k - 1) % Byte]

Negative(a) == a[IntBytes] >= Byte \div 2

\* a < b of two int64
Less64(a, b) ==
    IF Negative(a) # Negative(b)
    THEN Negative(a)
    ELSE \E i \in 1..IntBytes :
            /\ a[i] < b[i]
            /\ \A j \in (i + 1)..IntBytes : a[j] = b[j]

\* main before it loads the configuration from the environment env
Loading(env) == [env |-> env] @@ [Idle EXCEPT !.kind = "main", !.pc = "load"]

\* config = Config{...}: the two integers of the environment
LoadConfig(g) ==
    /\ gor[g].pc = "load"
    /\ config' =
         [MaxConcurrentConversions |->
              getEnvInt(gor[g].env, "MAX_CONCURRENT_CONVERSIONS", Int64(3)),
          BackgroundCacheInterval |->
              Mul64(getEnvInt(gor[g].env, "BACKGROUND_CACHE_INTERVAL_MINUTES", Int64(5)),
                    Minute)] @@ config
    /\ gor' = [gor EXCEPT ![g].pc = "validate"]
    /\ UNCHANGED <<fs, locks, held, cameraSem, tasks, sched>>

\* Mutant of ValidateConfig: the interval is not validated
ValidateConfigNoInterval(g) ==
    /\ gor[g].pc = "validate"
    /\ config' = [config EXCEPT
                    !.MaxConcurrentConversions = IF Less64(@, Int64(1)) THEN Int64(1) ELSE @]
    /\ gor' = [gor EXCEPT ![g].pc = "done"]
    /\ UNCHANGED <<fs, locks, held, cameraSem, tasks, sched>>

\* Validate config: the two ifs of main
ValidateConfig(g) ==
    /\ gor[g].pc = "validate"
    /\ config' = [config EXCEPT
                    !.MaxConcurrentConversions = IF Less64(@, Int64(1)) THEN Int64(1) ELSE @,
                    !.BackgroundCacheInterval = IF Less64(@, Minute) THEN Minute ELSE @]
    /\ gor' = [gor EXCEPT ![g].pc = "done"]
    /\ UNCHANGED <<fs, locks, held, cameraSem, tasks, sched>>

\* main has loaded and validated the configuration
Configured == {g \in AllG : gor[g].kind = "main" /\ gor[g].pc = "done"}

(* ------------- preCacheVideos / preCacheVideosSync / preCacheImages ---- *)

\* preCacheVideos: sem <- struct{}{} in the loop, then go func(videoURL)
LoopStep(id) ==
    /\ tasks.loop[id].todo # <<>>
    /\ tasks.loop[id].sem < MaxConcurrentConversions
    /\ tasks' = [tasks EXCEPT
                   !.loop[id] = [todo |-> Tail(@.todo), sem |-> @.sem + 1],
                   !.pend = @ \cup {[kind |-> "async", url |-> Head(tasks.loop[id].todo),
                                     owner |-> id]}]
    /\ UNCHANGED <<gor, fs, locks, config, held, cameraSem, sched>>

\* The locals of a pre-cache goroutine calling the cache: GetWithFile(videoURL,
\* ".mp4", convertVideoToMP4) or Get(imgURL, ext, fetchFromCamera)
ItemCall(task) ==
    IF task.kind \in {"async", "sync"}
    THEN [Idle EXCEPT !.kind = task.kind, !.fn = "GetWithFile", !.url = task.url,
                      !.suffix = ".mp4", !.owner = task.owner]
    ELSE [Idle EXCEPT !.kind = task.kind, !.fn = "Get", !.url = task.url,
                      !.suffix = IF Ext(task.url) = "" THEN ".jpg" ELSE Ext(task.url),
                      !.owner = task.owner]

\* A started pre-cache goroutine runs: in preCacheVideosSync and
\* preCacheImages it first takes a permit of its function's semaphore
\* (preCacheVideos took it before the go statement); then the cache call
Worker(w, task) ==
    /\ task \in tasks.pend
    /\ \A v \in W : v < w => gor[v].pc # "idle"
    /\ task.kind = "sync" => tasks.syncSem < MaxConcurrentConversions
    /\ task.kind \in {"thumb", "image"} => tasks.imgSem < MaxConcurrentConversions
    /\ Call(w, ItemCall(task),
            [tasks EXCEPT !.pend = @ \ {task},
                          !.syncSem = IF task.kind = "sync" THEN @ + 1 ELSE @,
                          !.imgSem = IF task.kind \in {"thumb", "image"} THEN @ + 1 ELSE @])

\* Catalog items by the characters of their names: plain ones, a "+", a
\* space, a "%"; a video may have an image as its thumbnail
WarmStems == {<<"v">>, <<"v", "+">>, <<"v", " ">>, <<"v", "%">>}

WarmImages ==
    {parseMedia(n \o <<".jpg">>, <<"2025-11-21", "/", "images000">>, "image") :
        n \in WarmStems}

WarmVideos ==
    UNION {{WithThumbs(<<parseMedia(n \o <<x>>, <<"2025-11-21", "/", "record000">>, "video"),
                         img>>, <<t, 0>>)[1] : t \in {0, 2}} :
              n \in WarmStems, x \in {".264", ".265"}, img \in WarmImages}

\* An item and the pre-caching of it: preCacheVideos ("async"),
\* preCacheVideosSync ("sync"), preCacheImages for a thumbnail ("thumb") or
\* an image ("image")
WarmCases ==
    {[item |-> v, kind |-> k] : v \in WarmVideos, k \in {"async", "sync"}}
    \cup {[item |-> v, kind |-> "thumb"] : v \in {v \in WarmVideos : v.thumbnailUrl # <<>>}}
    \cup {[item |-> [thumbnailUrl |-> <<>>] @@ i, kind |-> "image"] : i \in WarmImages}

\* The URL the pre-cache goroutine is started with: item.URL, or the URL
\* preCacheImages takes out of the video's ThumbnailURL
WarmTask(c) ==
    [kind |-> c.kind,
     url |-> IF c.kind = "thumb"
             THEN QueryUnescape(TrimPrefix(c.item.thumbnailUrl, "/api/proxy?url="))
             ELSE c.item.url,
     owner |-> IF c.kind = "async" THEN 1 ELSE 0]

\* The request the page makes for the item: GET item.proxyUrl for a video,
\* GET item.thumbnailUrl for its thumbnail, GET /api/proxy?url=<item.url
\* escaped> for an image. handleVideoProxy trims r.URL.Path, handleProxy
\* reads r.URL.Query().Get("url")
WarmRequest(g, c) ==
    CASE c.kind \in {"async", "sync"} ->
            handleVideoProxy(g, TrimSuffix(TrimPrefix(URLPath(c.item.proxyUrl),
                                                      "/api/video/"), ".mp4"))
      [] c.kind = "thumb" ->
            handleProxy(g, QueryUnescape(TrimPrefix(c.item.thumbnailUrl, "/api/proxy?url=")))
      [] OTHER ->
            handleProxy(g, QueryUnescape(QueryEscape(c.item.url)))

\* the key under which the pre-caching of case c stores the item
WarmKey(c) == getCacheKey(ItemCall(WarmTask(c)).url, ItemCall(WarmTask(c)).suffix)

\* the keys the request of case c can use
RequestKeys(c) ==
    LET path == TrimSuffix(TrimPrefix(URLPath(c.item.proxyUrl), "/api/video/"), ".mp4")
        u == QueryUnescape(QueryEscape(c.item.url))
        t == QueryUnescape(TrimPrefix(c.item.thumbnailUrl, "/api/proxy?url="))
    IN  {getCacheKey(DefaultCameraURL \o <<"/">> \o QueryUnescape(path), ".mp4"),
         getCacheKey(u, ProxyExt(u)), getCacheKey(t, ProxyExt(t))}

(* -------------------------- BackgroundCacher --------------------------- *)

\* runCacheJob: if !b.running.TryLock() the run is skipped; otherwise the
\* run starts with fetchAllMedia
runCacheJob(s) ==
    IF s.running
    THEN /\ sched' = s
         /\ UNCHANGED gor
    ELSE /\ sched' = [s EXCEPT !.running = TRUE, !.pc = "run", !.runs = @ + 1,
                             !.active = @ + 1]
         /\ gor' = [gor EXCEPT ![BG] = Listing("bg")]

\* Start: go func() { ...; b.runCacheJob() (the run at startup)
Start ==
    /\ sched.pc = "off"
    /\ runCacheJob([sched EXCEPT !.pc = "select"])
    /\ UNCHANGED <<fs, locks, config, held, cameraSem, tasks>>

\* Mutant of RunEnd: runCacheJob returns without wg.Wait()
RunEndNoWait ==
    /\ gor[BG].pc = "wait"
    /\ RunReturns
    /\ UNCHANGED <<fs, locks, config, held, cameraSem, tasks>>

\* wg.Wait() of runCacheJob returns once preCacheVideosSync and
\* preCacheImages, which wait for their goroutines, are done
RunEnd ==
    /\ gor[BG].pc = "wait"
    /\ tasks.wg = 0
    /\ RunReturns
    /\ UNCHANGED <<fs, locks, config, held, cameraSem, tasks>>

\* The runtime delivers a tick every interval: ticker.C holds one value, a
\* tick that finds it full is dropped. late records that the buffered tick
\* fired while a run was executing.
Tick ==
    /\ sched.ticker
    /\ sched.runs < MaxRuns
    /\ sched' = IF sched.tickerC = 0
                THEN [sched EXCEPT !.tickerC = 1, !.late = (sched.pc = "run")]
                ELSE sched
    /\ UNCHANGED <<gor, fs, locks, config, held, cameraSem, tasks>>

\* Mutant of ReceiveTick: the tick is served while a run executes and the
\* run body is entered without the exclusivity check
ReceiveTickOverlap ==
    /\ sched.pc \in {"select", "run"}
    /\ sched.tickerC = 1
    /\ sched' = [sched EXCEPT !.tickerC = 0, !.late = FALSE, !.running = TRUE,
                              !.pc = "run", !.runs = @ + 1, !.active = @ + 1]
    /\ gor' = [gor EXCEPT ![BG] = Listing("bg")]
    /\ UNCHANGED <<fs, locks, config, held, cameraSem, tasks>>

\* select: case <-ticker.C: b.runCacheJob()
ReceiveTick ==
    /\ sched.pc = "select"
    /\ sched.tickerC = 1
    /\ runCacheJob([sched EXCEPT !.tickerC = 0, !.late = FALSE])
    /\ UNCHANGED <<fs, locks, config, held, cameraSem, tasks>>

\* ReceiveTick in a cacher that runs without end. The program does not
\* number its runs: the run takes the lowest number below MaxRuns whose
\* preCacheVideos goroutine, started by an earlier run, has ended, so that
\* at most MaxRuns - 1 of these goroutines are unfinished at a time and the
\* ticker never ceases to tick
ReceiveTickAgain ==
    /\ sched.pc = "select"
    /\ sched.tickerC = 1
    /\ \E r \in 1..(MaxRuns - 1) :
         /\ tasks.loop[NH + r] = NoLoop
         /\ \A q \in 1..(r - 1) : tasks.loop[NH + q] # NoLoop
         /\ runCacheJob([sched EXCEPT !.tickerC = 0, !.late = FALSE, !.runs = r - 1])
    /\ UNCHANGED <<fs, locks, config, held, cameraSem, tasks>>

\* Mutant of ReceiveStop: the select gives the ticker priority and sees
\* stopCh only when no tick is pending
ReceiveStopAfterTick ==
    /\ sched.pc = "select"
    /\ sched.stopCh
    /\ sched.tickerC = 0
    /\ sched' = [sched EXCEPT !.pc = "exited", !.ticker = FALSE, !.doneCh = TRUE]
    /\ UNCHANGED <<gor, fs, locks, config, held, cameraSem, tasks>>

\* select: case <-b.stopCh: return, with the deferred ticker.Stop() and
\* close(b.doneCh)
ReceiveStop ==
    /\ sched.pc = "select"
    /\ sched.stopCh
    /\ sched' = [sched EXCEPT !.pc = "exited", !.ticker = FALSE, !.doneCh = TRUE]
    /\ UNCHANGED <<gor, fs, locks, config, held, cameraSem, tasks>>

\* Stop: close(b.stopCh)
Stop ==
    /\ sched.pc # "off"
    /\ sched.stop = "none"
    /\ sched' = [sched EXCEPT !.stopCh = TRUE, !.stop = "waiting"]
    /\ UNCHANGED <<gor, fs, locks, config, held, cameraSem, tasks>>

\* Mutant of StopReturn: Stop returns without waiting for doneCh
StopReturnNoWait ==
    /\ sched.stop = "waiting"
    /\ sched' = [sched EXCEPT !.stop = "returned"]
    /\ UNCHANGED <<gor, fs, locks, config, held, cameraSem, tasks>>

\* Stop: <-b.doneCh, then it returns
StopReturn ==
    /\ sched.stop = "waiting"
    /\ sched.doneCh
    /\ sched' = [sched EXCEPT !.stop = "returned"]
    /\ UNCHANGED <<gor, fs, locks, config, held, cameraSem, tasks>>

(* ======================= properties of the cache ======================= *)

FinalPath(k) == <<"final", k, 0>>

\* g has called Get/GetWithFile and has not returned
Active(g) == gor[g].pc \notin {"idle", "done"}

\* g is executing its fetchFunc (fetchFromCamera / convertVideoToMP4)
InBuild(g) == gor[g].pc \in {"acq", "inflight", "clean", "ffmpeg"}

Builders(k) == {g \in G : InBuild(g) /\ KeyOf(g) = k}

\* the goroutines that have called Get/GetWithFile for key k
Callers(k) == {g \in G : gor[g].pc # "idle" /\ KeyOf(g) = k}

AllReturned(k) == Callers(k) # {} /\ \A g \in Callers(k) : gor[g].pc = "done"

\* executions of the fetch/build function for key k so far (each request
\* goroutine makes one call and executes it at most once)
BuildCount(k) == Cardinality({g \in Callers(k) : gor[g].built})

\* g invokes its fetch/build function in this step
Invokes(g) == ~gor[g].built /\ gor'[g].built

\* g's call of Get/GetWithFile has returned an error
Failed(g) == gor[g].ret \in Errors

\* g returns from Get/GetWithFile in this step
Returns(g) == gor[g].pc # "done" /\ gor'[g].pc = "done"

KeyOfNext(g) == getCacheKey(gor'[g].url, gor'[g].suffix)

\* C1: for every key at most one caller is executing the fetch/build function;
\* that caller holds the key's mutex, and every other caller of the key that
\* has not returned is waiting on that mutex (from where it goes on to the
\* second existence check).
C1_OneBuilderPerKey ==
    \A k \in Keys :
        /\ Cardinality(Builders(k)) <= 1
        /\ \A g \in Builders(k) :
              /\ held[k] = g
              /\ \A h \in G \ {g} : (Active(h) /\ KeyOf(h) = k) => gor[h].pc = "lock"

\* C1 witness: a Get caller and a GetWithFile caller of one key, one building
\* and the other waiting on the lock
C1_Witness ==
    \E g, h \in G :
        /\ g # h /\ KeyOf(g) = KeyOf(h) /\ gor[g].fn # gor[h].fn
        /\ InBuild(g) /\ gor[h].pc = "lock"

C3_FinalFilesComplete ==
    /\ \A k \in Keys :
          Exists(FinalPath(k)) =>
              /\ fs[FinalPath(k)][1] = "complete"
              /\ LET b == fs[FinalPath(k)][2]
                 IN  b \in G /\ KeyOf(b) = k /\ gor[b].built /\ gor[b].ret = "ok"
    /\ \A g \in G : gor[g].dest # NoPath =>
          gor[g].dest = TempPathOf(g) /\ gor[g].dest \notin {FinalPath(k) : k \in Keys}

\* C3 witness: a converter is writing its partial output while a complete
\* file is in the cache
C3_Witness ==
    \E g \in G, k \in Keys :
        /\ gor[g].pc = "ffmpeg" /\ fs[gor[g].dest][1] = "partial"
        /\ Exists(FinalPath(k))

C6_EntryImmutable ==
    [][\A k \in Keys : Exists(FinalPath(k)) => fs'[FinalPath(k)] = fs[FinalPath(k)]]_vars

\* C6 witness: a file is in the cache while another caller of its key, who
\* missed the lock-free check before it appeared, holds the mutex
C6_Witness ==
    \E g \in G : gor[g].pc = "stat2" /\ Exists(CachePathOf(g))

(* ================== properties of the camera limiter =================== *)

\* goroutines with an HTTP request to the camera in flight: inside client.Do
\* or reading the body, in fetchFromCamera or in fetchDirectory
InFlight == {g \in AllG : gor[g].pc \in {"inflight", "list"}}

\* goroutines inside fetchFromCamera: waiting for a permit, or holding one
Fetching == {g \in AllG : gor[g].pc \in {"acq", "inflight"}}

\* C7 as claimed: at most 3 requests to the camera are in flight, directory
\* listings included.
C7_Original == Cardinality(InFlight) <= CameraSemCap

\* C8: the permits held are exactly those of the fetchFromCamera calls that
\* have acquired and not exited (a call that exits, with or without error,
\* holds none); the number held is between 0 and 3, and 0 when no fetch is in
\* progress.
C8_PermitsReleased ==
    /\ cameraSem \in 0..CameraSemCap
    /\ cameraSem = Cardinality({g \in AllG : gor[g].pc = "inflight"})
    /\ Fetching = {} => cameraSem = 0

\* C8 witness: a fetchFromCamera call has exited with an error, and all three
\* permits are held by the calls now in flight
C8_Witness ==
    /\ \E g \in AllG : gor[g].ret = "errFetch"
    /\ cameraSem = CameraSemCap
    /\ Cardinality(Fetching) = CameraSemCap

(* ================ properties of the conversion limit =================== *)

\* goroutines executing convertVideoToMP4 (download, strip, ffprobe, ffmpeg)
Converting == {g \in AllG : gor[g].fn = "GetWithFile" /\ InBuild(g)}

\* C9 as claimed: at most MAX_CONCURRENT_CONVERSIONS conversions run at the
\* same time.
C9_Original == Cardinality(Converting) <= MaxConcurrentConversions

(* ================ properties of the background cacher ================== *)

\* C10 as claimed: a tick that fired while a run was executing starts no run.
C10_Original ==
    [][(sched.pc = "select" /\ sched'.pc = "run") => ~sched.late]_vars

\* runCacheJob is executing its body (after the exclusivity check)
RunInProgress == gor[BG].pc \in {"list", "wait"}

\* C11: at most one run body is executing; the run-in-progress flag is held
\* exactly while one is, and the loop goroutine is then inside runCacheJob.
C11_OneRunAtATime ==
    /\ sched.active \in {0, 1}
    /\ sched.active = 1 <=> sched.running
    /\ sched.running <=> RunInProgress
    /\ sched.running <=> sched.pc = "run"

\* C11 witness: a tick is waiting in the ticker's channel while a run started
\* by an earlier tick is executing
C11_Witness ==
    /\ sched.active = 1 /\ sched.tickerC = 1 /\ sched.late /\ sched.runs >= 2

\* C12: when Stop has returned, the loop goroutine has exited and no
\* runCacheJob is executing.
C12_StopWaitsForRun ==
    sched.stop = "returned" =>
        /\ sched.pc = "exited" /\ sched.doneCh
        /\ sched.active = 0 /\ ~sched.running /\ ~RunInProgress

\* C12 witness: Stop has been called while a run is executing and is blocked
\* on doneCh
C12_Witness ==
    /\ sched.stop = "waiting" /\ ~sched.doneCh
    /\ RunInProgress /\ gor[BG].pc = "wait" /\ tasks.wg > 0

\* C13 as claimed: once stopCh is closed no run is started.
C13_Original == [][sched.stopCh => sched'.runs = sched.runs]_vars

\* C14 as claimed: when Stop has returned, no fetch, build or conversion
\* started by a background run is in flight.
C14_Original == sched.stop = "returned" => \A w \in W : ~InBuild(w)

\* the goroutines of preCacheVideosSync and preCacheImages that have not
\* finished: started and waiting for a permit, or inside their cache call
SubTaskItems ==
    {t \in tasks.pend : t.kind \in {"sync", "thumb", "image"}}

SubTaskWorkers ==
    {w \in W : gor[w].kind \in {"sync", "thumb", "image"} /\ gor[w].pc # "idle"}

\* C15: while the run-in-progress flag is not held, no goroutine of the
\* synchronous video pre-cache or of the image pre-cache is unfinished, and
\* the flag is released only in a step that finds both sub-tasks finished.
C15_RunEndsAfterSubTasks ==
    /\ ~sched.running =>
          /\ SubTaskItems = {} /\ SubTaskWorkers = {}
          /\ tasks.wg = 0 /\ tasks.syncSem = 0 /\ tasks.imgSem = 0
    /\ tasks.wg = Cardinality(SubTaskItems) + Cardinality(SubTaskWorkers)

\* C15 witness: the run is waiting; the image pre-cache has finished and a
\* conversion of the synchronous video pre-cache is still running
C15_Witness ==
    /\ sched.running /\ gor[BG].pc = "wait" /\ tasks.wg = 1
    /\ \E w \in W : gor[w].kind = "sync" /\ gor[w].pc = "ffmpeg"
    /\ Exists(FinalPath(getCacheKey(ImageURL, Ext(ImageURL))))

\* C16 as claimed: no fetch of a non-thumbnail image is started while a
\* thumbnail of the run has not started its fetch.
C16_Original ==
    \A w \in W :
        (gor[w].kind = "image" /\ gor[w].url = OtherImageURL /\ gor[w].built) =>
            \A t \in tasks.pend : t.kind # "thumb"

\* C17: every run that starts returns the scheduler to Idle (the flag is
\* released and the loop is back at its select), whatever failed in it.
C17_RunReturnsToIdle ==
    sched.running ~> (~sched.running /\ sched.pc = "select")

\* C17 witness: a run whose every step failed has ended (nothing is cached
\* and nothing is running) and a later tick has started a new run
C17_Witness ==
    /\ sched.runs = 2 /\ sched.running
    /\ \A k \in Keys : ~Exists(FinalPath(k))
    /\ \A w \in W : gor[w].pc = "idle"
    /\ tasks.pend = {}

(* ================== properties of the URL validation =================== *)

\* the requests handled by handleProxy and handleVideoProxy
Proxied == {g \in AllG : gor[g].kind \in {"proxy", "video"}}

\* C18: a request whose target URL does not start with the configured
\* camera URL has been answered 400, and no cache lookup, lock or request to
\* the camera was made for it.
C18_RejectedBeforeCache ==
    \A g \in Proxied :
        ~HasPrefix(gor[g].url, config.CameraURL) =>
            /\ gor[g].pc = "done" /\ gor[g].ret = "400"
            /\ gor[g].fn = "none" /\ ~gor[g].built
            /\ locks = {} /\ cameraSem = 0
            /\ \A k \in DOMAIN held : held[k] = -1
            /\ \A p \in DOMAIN fs : fs[p] = Absent

\* C18 witness: a request for a URL on the camera's host but outside the
\* configured SD card URL has been answered 400
C18_Witness ==
    /\ gor[1].kind = "proxy" /\ gor[1].ret = "400"
    /\ config.CameraURL = <<"http://", "cam", "/", "sd">>
    /\ gor[1].url = <<"http://", "cam", "/", "x.jpg">>

\* u names the camera's host and a path that is the base path or below it
OnCamera(u, base) ==
    /\ Host(u) = Host(base)
    /\ \/ PathOf(base) = <<>>
       \/ PathOf(u) = PathOf(base)
       \/ HasPrefix(PathOf(u), PathOf(base) \o <<"/">>)

\* C19 as claimed: every URL the handlers fetch is on the camera's host and
\* under the configured base path.
C19_Original ==
    \A g \in Proxied : gor[g].pc = "inflight" =>
        OnCamera(gor[g].url, config.CameraURL)

\* The request goroutine whose call is the first to start after a removal
LateCaller == NG

\* the call of LateCaller returns in this step
LateReturns ==
    /\ gor[LateCaller].pc \notin {"idle", "done"}
    /\ gor'[LateCaller].pc = "done"

\* C20 as claimed: the first call for a key that starts after the cleanup
\* script removed the key's file invokes the build function itself, and when
\* it succeeds the file it built is at the cache path.
C20_Original ==
    [][LateReturns =>
         /\ gor'[LateCaller].built
         /\ gor'[LateCaller].ret = "ok" =>
               fs'[CachePathOf(LateCaller)] = File("complete", LateCaller)]_vars

\* C20: the first call for a key that starts after the cleanup script removed
\* the key's file returns a path only when a complete file is there again,
\* built after the removal by itself or by a caller that was already past the
\* fast path when the file was removed (no build is in progress while the
\* file exists); whatever the script removes, and whenever, a key has at most
\* one builder and a file at a cache path is complete.
C20_RebuiltAfterRemoval ==
    [][/\ (LateReturns /\ gor'[LateCaller].ret = "ok") =>
            \E h \in G :
               /\ fs'[CachePathOf(LateCaller)] = File("complete", h)
               /\ KeyOf(h) = KeyOf(LateCaller)
               /\ gor'[h].built /\ gor'[h].ret = "ok"
               /\ gor'[LateCaller].built <=> h = LateCaller
       /\ (LateReturns /\ ~gor'[LateCaller].built) => gor'[LateCaller].ret \in {"ok", "err"}
       /\ \A k \in Keys : Builders(k) # {} => ~Exists(FinalPath(k))
       /\ C1_OneBuilderPerKey'
       /\ C3_FinalFilesComplete']_vars

\* the late caller rebuilt a removed file while another caller waited, and
\* the script has removed another file since
C20_Witness ==
    /\ gor[LateCaller].pc = "done" /\ gor[LateCaller].ret = "ok"
    /\ gor[LateCaller].built
    /\ fs[CachePathOf(LateCaller)] = File("complete", LateCaller)
    /\ \E h \in G \ {LateCaller} : KeyOf(h) = KeyOf(LateCaller) /\ gor[h].pc = "done"
    /\ \E k \in Keys : fs[FinalPath(k)] = Deleted

C25_NoTempLeft ==
    \A g \in AllG : gor[g].pc \in {"idle", "done"} => fs[TempPathOf(g)] = Absent

\* a GetWithFile call that had its temp file failed, and a Get call succeeded
C25_Witness ==
    \E g, h \in G :
        /\ gor[g].pc = "done" /\ gor[g].fn = "GetWithFile" /\ gor[g].built /\ Failed(g)
        /\ gor[h].pc = "done" /\ gor[h].fn = "Get" /\ gor[h].built /\ gor[h].ret = "ok"

\* C26: a caller waiting for the mutex of its key can take it whenever that
\* mutex is free, whoever holds the mutexes of other keys.
C26_DistinctKeysIndependent ==
    \A g \in G : (gor[g].pc = "lock" /\ held[KeyOf(g)] = -1) => ENABLED Lock(g)

\* two callers with distinct keys are inside their build functions, a third
\* can take the free mutex of its key
C26_Witness ==
    \E g, h, j \in G :
        /\ KeyOf(g) # KeyOf(h) /\ InBuild(g) /\ InBuild(h)
        /\ held[KeyOf(g)] = g /\ held[KeyOf(h)] = h
        /\ gor[j].pc = "lock" /\ held[KeyOf(j)] = -1

\* how far a call of Get/GetWithFile has come
Rank(pc) ==
    CASE pc = "idle" -> 0
      [] pc = "lock" -> 1
      [] pc = "stat2" -> 2
      [] pc = "acq" -> 3
      [] pc = "inflight" -> 4
      [] pc \in {"write", "clean"} -> 5
      [] pc = "ffmpeg" -> 6
      [] pc = "rename" -> 7
      [] OTHER -> 8

\* C27: a call never goes back: it invokes its build function at most once
\* (from the double-check, not having invoked it before), and when the build
\* function fails the call returns an error in the same step.
C27_NoRetry ==
    [][\A g \in G :
         /\ gor'[g].pc # gor[g].pc => Rank(gor'[g].pc) > Rank(gor[g].pc)
         /\ (gor'[g].pc = "acq" /\ gor[g].pc # "acq") =>
               (gor[g].pc = "stat2" /\ ~gor[g].built /\ gor'[g].built)
         /\ (InBuild(g) /\ gor'[g].pc = "done") => gor'[g].ret \in Errors]_vars

\* a call whose build failed has returned the error, and the next caller of
\* the key is building
C27_Witness ==
    \E g, h \in G :
        /\ g # h /\ KeyOf(g) = KeyOf(h)
        /\ gor[g].pc = "done" /\ gor[g].built /\ gor[g].ret = "errFetch"
        /\ InBuild(h)

\* the first line of the probe's output that has a rate, 0 if none has
RateLine(probe) ==
    IF probe.err \/ \A i \in DOMAIN probe.lines : ~HasRate(probe.lines[i])
    THEN 0
    ELSE CHOOSE i \in DOMAIN probe.lines :
            /\ HasRate(probe.lines[i])
            /\ \A j \in 1..(i - 1) : ~HasRate(probe.lines[j])

\* C28: the frame rate given to ffmpeg is at least 1: the rate of the probe
\* rounded to the nearest integer when that is positive (30000/1001 gives 30,
\* 25 gives 25), and 20 when the probe failed, printed no rate, or printed
\* one that rounds to zero.
C28_FrameRate ==
    \A g \in Rated :
        LET probe == gor[g].probe
            n == RateLine(probe)
        IN  /\ gor[g].fps >= 1
            /\ IF n # 0 /\ RoundedRate(probe.lines[n]) >= 1
               THEN gor[g].fps = RoundedRate(probe.lines[n])
               ELSE gor[g].fps = DefaultFPS
            /\ (~probe.err /\ probe.lines[1] = <<"30000", "1001">>) => gor[g].fps = 30
            /\ (~probe.err /\ probe.lines[1] \in {<<"25">>, <<"25.0">>, <<"25", "1">>})
                  => gor[g].fps = 25

\* the probe printed 0/0 and then 30000/1001, and ffmpeg gets 30
C28_Witness ==
    \E g \in Rated :
        /\ ~gor[g].probe.err
        /\ gor[g].probe.lines = <<(<<"0", "0">>), (<<"30000", "1001">>)>>
        /\ gor[g].fps = 30

\* C30: once main has loaded and validated the configuration, the interval
\* of the background cacher is at least one minute and
\* MaxConcurrentConversions at least 1, whatever the two variables hold in
\* the environment; unset, they are 5 minutes and 3.
C30_ConfigValidated ==
    \A g \in Configured :
        /\ ~Less64(config.BackgroundCacheInterval, Minute)
        /\ ~Less64(config.MaxConcurrentConversions, Int64(1))
        /\ gor[g].env["BACKGROUND_CACHE_INTERVAL_MINUTES"] = ""
              => config.BackgroundCacheInterval = Mul64(Int64(5), Minute)
        /\ gor[g].env["MAX_CONCURRENT_CONVERSIONS"] = ""
              => config.MaxConcurrentConversions = Int64(3)

\* a number of minutes whose nanoseconds wrap round to 26 seconds, and a
\* negative number of conversions, were both replaced by the minimum
C30_Witness ==
    \E g \in Configured :
        /\ gor[g].env["BACKGROUND_CACHE_INTERVAL_MINUTES"] = "307445735"
        /\ gor[g].env["MAX_CONCURRENT_CONVERSIONS"] = "-3"
        /\ config.BackgroundCacheInterval = Minute
        /\ config.MaxConcurrentConversions = Int64(1)

\* C31: when convertVideoToMP4 has returned, with nil or with any error, the
\* temp file of the cleaned stream does not exist.
C31_CleanTempRemoved ==
    \A g \in Converted : gor[g].clean = Absent

\* ffmpeg failed on a temp file that had been created
C31_Witness ==
    \E g \in Converted :
        gor[g].made /\ gor[g].ret = "errFfmpeg" /\ Len(gor[g].data) > HeaderLen

\* g is past the fast path of Get/GetWithFile and has not returned
InCall(g) ==
    gor[g].pc \in {"lock", "stat2", "acq", "inflight", "write", "clean", "ffmpeg", "rename"}

\* a permit of a pre-cache semaphore is taken in this step
SlotTaken ==
    \/ tasks'.syncSem > tasks.syncSem
    \/ tasks'.imgSem > tasks.imgSem
    \/ \E id \in LoopIds : tasks'.loop[id].sem > tasks.loop[id].sem

C33_PathOrError ==
    [][\A g \in G :
         (Returns(g) /\ gor'[g].fn \in {"Get", "GetWithFile"}) =>
            \/ /\ gor'[g].ret = "ok"
               /\ gor'[g].path = getCachePath(gor'[g].url, gor'[g].suffix)
               /\ gor'[g].path # NoPath
               /\ fs'[gor'[g].path] \notin {Absent, Deleted}
            \/ /\ gor'[g].ret \in Errors
               /\ gor'[g].path = NoPath]_vars

\* one call has returned the path of its key, built by itself, another of
\* another key an error and no path
C33_Witness ==
    \E g, h \in G :
        /\ gor[g].pc = "done" /\ gor[g].ret = "ok" /\ gor[g].built
        /\ gor[g].path = CachePathOf(g) /\ Exists(gor[g].path)
        /\ gor[h].pc = "done" /\ gor[h].ret \in Errors /\ gor[h].path = NoPath
        /\ KeyOf(g) # KeyOf(h)

\* C34 as claimed: the request for a catalog item uses the key under which
\* the pre-caching stores the item, and when the pre-cached file is there the
\* request returns it without a build.
C34_Original ==
    [][\A g \in G :
         (gor[g].pc = "idle" /\ gor'[g].fn \in {"Get", "GetWithFile"}) =>
            /\ KeyOfNext(g) = WarmKey(sched.warm)
            /\ Exists(<<"final", WarmKey(sched.warm), 0>>)
                  => (gor'[g].pc = "done" /\ gor'[g].ret = "ok")]_vars

\* C35: once Stop is called on a started cacher it returns (from some point
\* on Stop is never waiting: it was not called or it has returned), when
\* every run terminates and the select, which picks at random among its
\* ready cases, does not pass over the ready stopCh for ever; at every
\* select the loop reaches after the signal the stop case is ready, whether
\* or not a tick is pending there.
C35_StopTerminates ==
    /\ <>[](sched.stop # "waiting")
    /\ []((sched.stopCh /\ sched.pc = "select") => ENABLED ReceiveStop)

\* C35 witness: Stop has returned after a second run, and the stop signal was
\* received at a select where a tick was pending (the ticker is stopped on
\* the way out, so the tick is still in ticker.C)
C35_Witness ==
    /\ sched.stop = "returned"
    /\ sched.runs = MaxRuns - 1
    /\ sched.tickerC = 1

\* the timestamps of set S inside the window of video v
Window(v, S) == {t \in S : v.ts <= t /\ t < v.end}

Earliest(S) == CHOOSE t \in S : \A u \in S : t <= u

\* The thumbnail of media[i] as a function of the list alone: of the images
\* whose timestamp parses, the one listed last among those with the earliest
\* timestamp of the window, else the one listed last among those one second
\* before the start
ThumbOf(media, i) ==
    LET v == media[i]
        index == ImageIndex(media)
        all == DOMAIN index \ {NoTime}
    IN  IF v.type # "video" \/ v.ts = NoTime \/ v.end = NoTime THEN 0
        ELSE IF Window(v, all) # {} THEN index[Earliest(Window(v, all))]
        ELSE IF v.ts - 1 \in all THEN index[v.ts - 1]
        ELSE 0

\* C36: the thumbnail of every video is a function of the ordered list of
\* items, whatever the order in which the image map is visited: after any
\* set of visited images the two candidates depend on that set only, and
\* the thumbnail given to a video is the one the list determines.
C36_MatchingDeterministic ==
    \A g \in Matchers :
        LET rec == gor[g]
            seen == (DOMAIN rec.images \ rec.todo) \ {NoTime}
        IN  /\ rec.pc = "images" =>
                 LET v == rec.media[rec.i]
                 IN  /\ rec.duringVideo = IF Window(v, seen) = {} THEN 0
                                          ELSE rec.images[Earliest(Window(v, seen))]
                     /\ rec.beforeVideo = IF v.ts - 1 \in seen THEN rec.images[v.ts - 1]
                                          ELSE 0
            /\ \A i \in 1..(rec.i - 1) : rec.thumb[i] = ThumbOf(rec.media, i)

\* C36 witness: matching is over for a video with two images inside its
\* window that share one timestamp; the thumbnail is the one listed last
C36_Witness ==
    \E g \in Matchers :
        /\ gor[g].pc = "done"
        /\ gor[g].media = <<[type |-> "video", ts |-> 1, end |-> 3],
                            [type |-> "image", ts |-> 1, end |-> NoTime],
                            [type |-> "image", ts |-> 1, end |-> NoTime]>>
        /\ gor[g].thumb[1] = 3

\* the seconds since midnight of the three fields at position i of a timestamp
TimeOfDay(ts, i) == (Num(ts[i]) * 60 + Num(ts[i + 2])) * 60 + Num(ts[i + 4])

\* the video's name gives an end whose time of day is before the start's
CrossesMidnight(item) ==
    /\ item.type = "video"
    /\ Len(item.timestamp) = 18
    /\ TimeOfDay(item.timestamp, 14) < TimeOfDay(item.timestamp, 8)

C38_Original ==
    \A g \in Stripped :
        gor[g].pass = 2 => (gor[g].out = gor[g].first /\ gor[g].removed = 0)

\* the list fetchDateMedia returns, in the state where the matching is over
DateMedia(g) == WithThumbs(gor[g].items, gor[g].thumb)

\* C39: in every list returned by fetchDateMedia proxyUrl is non-empty
\* exactly for the videos, thumbnailUrl is set only on videos, a thumbnailUrl
\* that is set is "/api/proxy?url=" followed by the escaped URL of an image
\* of the same list (and decodes to that URL), and the items are those
\* parseMedia made, but for thumbnailUrl.
C39_ItemShape ==
    \A g \in AllG : (gor[g].kind = "catalog" /\ gor[g].pc = "matched") =>
        LET list == DateMedia(g)
            items == gor[g].items
        IN  /\ Len(list) = Len(items)
            /\ \A j \in 1..Len(list) :
                  /\ list[j].proxyUrl # <<>> <=> list[j].type = "video"
                  /\ list[j].thumbnailUrl # <<>> => list[j].type = "video"
                  /\ list[j].thumbnailUrl # <<>> =>
                        \E h \in 1..Len(list) :
                           /\ list[h].type = "image"
                           /\ list[h].path[1] = list[j].path[1]
                           /\ list[j].thumbnailUrl =
                                 <<"/api/proxy?url=">> \o QueryEscape(list[h].url)
                           /\ QueryUnescape(TrimPrefix(list[j].thumbnailUrl, "/api/proxy?url="))
                                 = list[h].url
                  /\ [f \in DOMAIN items[j] |-> list[j][f]] = items[j]
                  /\ DOMAIN list[j] = DOMAIN items[j] \cup {"thumbnailUrl"}

\* C39 witness: the list of a date has an image, a video that has the image
\* as its thumbnail and a video without a thumbnail
C39_Witness ==
    \E g \in AllG :
        /\ gor[g].kind = "catalog" /\ gor[g].pc = "matched"
        /\ \E i, j, h \in 1..Len(DateMedia(g)) :
              /\ DateMedia(g)[i].type = "image"
              /\ DateMedia(g)[j].type = "video"
              /\ DateMedia(g)[j].thumbnailUrl
                    = <<"/api/proxy?url=">> \o QueryEscape(DateMedia(g)[i].url)
              /\ DateMedia(g)[h].type = "video" /\ DateMedia(g)[h].thumbnailUrl = <<>>

\* C40: the lock table has at most one mutex per key and every caller past
\* the fast path has the mutex the table holds for its key, so callers of
\* one key have the same mutex; an entry is added only in the step of a
\* caller that missed the existence check without the lock, for that
\* caller's key, and no entry is ever removed or replaced.
C40_LockTable ==
    /\ [](/\ \A e, f \in locks : e[1] = f[1] => e = f
          /\ \A g \in AllG : gor[g].pc \notin {"idle", "done"} /\ gor[g].fn # "none"
                                  => <<KeyOf(g), gor[g].mu>> \in locks)
    /\ [][/\ locks \subseteq locks'
          /\ \A e \in locks' \ locks :
                \E g \in AllG :
                   /\ gor[g].pc = "idle" /\ gor'[g].pc = "lock"
                   /\ KeyOfNext(g) = e[1]
                   /\ ~Exists(FinalPath(e[1]))]_vars

\* C40 witness: three callers of one key missed the fast path; one holds
\* the key's mutex, the others wait for the same mutex, and the table has
\* this one entry
C40_Witness ==
    \E g, h, j \in G :
        /\ g # h /\ g # j /\ h # j
        /\ KeyOf(g) = KeyOf(h) /\ KeyOf(j) = KeyOf(h)
        /\ gor[g].mu = gor[h].mu /\ gor[j].mu = gor[h].mu
        /\ gor[g].pc = "lock" /\ gor[j].pc = "lock" /\ held[KeyOf(h)] = h
        /\ locks = {<<KeyOf(h), gor[h].mu>>}

\* the positions (from 1) where the four bytes of a tag start
TagsAt(data) ==
    {p \in 1..(Len(data) - 3) :
        /\ <<data[p], data[p + 1], data[p + 2]>> = <<"H", "X", "V">>
        /\ data[p + 3] \in {"S", "F"}}

\* the recognised markers: from the left, each tag that is followed by the
\* rest of its 16 bytes and does not lie inside an earlier marker
Markers(data) ==
    LET R[p \in 0..Len(data)] ==
            IF p = 0 THEN {}
            ELSE IF /\ p \in TagsAt(data) /\ p + 15 <= Len(data)
                    /\ \A m \in R[p - 1] : p > m + 15
                 THEN R[p - 1] \cup {p}
                 ELSE R[p - 1]
    IN  R[Len(data)]

\* data without the bytes of its markers
WithoutMarkers(data) ==
    LET keep(p) == \A m \in Markers(data) : p < m \/ p > m + 15
        F[p \in 0..Len(data)] ==
            IF p = 0 THEN <<>>
            ELSE IF keep(p) THEN Append(F[p - 1], data[p]) ELSE F[p - 1]
    IN  F[Len(data)]

\* C23: stripHXVSHeaders returns its input without the 16 bytes of every
\* recognised marker, the other bytes in their order; the output is 16 bytes
\* shorter per marker; an input without a tag is returned unchanged.
C23_MarkersRemoved ==
    \A g \in Stripped :
        /\ gor[g].out = WithoutMarkers(gor[g].data)
        /\ Len(gor[g].out) = Len(gor[g].data) - 16 * Cardinality(Markers(gor[g].data))
        /\ gor[g].removed = 16 * Cardinality(Markers(gor[g].data))
        /\ TagsAt(gor[g].data) = {} => gor[g].out = gor[g].data

\* a video was stripped of one marker; a tag inside the marker and a tag
\* too close to the end were not taken for markers
C23_Witness ==
    \E g \in Stripped :
        /\ Cardinality(TagsAt(gor[g].data)) = 3
        /\ Cardinality(Markers(gor[g].data)) = 1
        /\ gor[g].data[Len(gor[g].data)] \in {"S", "F"}
        /\ Len(gor[g].out) = Len(gor[g].data) - 16

\* the paths of the media files (.jpg in images000, .264 and .265 in
\* record000) of the subdirectories of date d that the camera lists, in the
\* order of the date's listing
ListedOfDate(c, d) ==
    LET shape == c.dates[d].shape
        files(sub) == SelectSeq(SubNames(d, sub),
                                LAMBDA n : IF sub = "images000" THEN n[Len(n)] = ".jpg"
                                           ELSE n[Len(n)] \in {".264", ".265"})
        F[i \in 0..Len(shape)] ==
            IF i = 0 THEN <<>>
            ELSE IF shape[i] \in {"images000", "record000"} /\ SubOk(c, d, shape[i])
                 THEN F[i - 1] \o [j \in 1..Len(files(shape[i])) |->
                                      DateDir(d) \o <<"/", shape[i], "/">> \o files(shape[i])[j]]
                 ELSE F[i - 1]
    IN  F[Len(shape)]

\* the same for the whole card: the dates whose listing the camera answers
Listed(c) ==
    LET F[d \in 0..Len(c.dates)] ==
            IF d = 0 THEN <<>>
            ELSE IF c.dates[d].ok THEN F[d - 1] \o ListedOfDate(c, d) ELSE F[d - 1]
    IN  F[Len(c.dates)]

\* C22: fetchAllMedia returns an error exactly when the root listing fails;
\* otherwise its result has exactly the media files of the subdirectories
\* that were listed, those of a date or subdirectory whose listing failed
\* being left out.
C22_OnlyRootIsFatal ==
    \A g \in Cataloged :
        /\ gor[g].ret = "err" <=> ~gor[g].camera.rootOk
        /\ gor[g].ret \in {"ok", "err"}
        /\ gor[g].ret = "ok" =>
              [j \in 1..Len(gor[g].allMedia) |-> gor[g].allMedia[j].path]
                  = Listed(gor[g].camera)

\* a catalog of two dates was built: the first date's record000 could not be
\* listed, the second date could not be listed; the first date's image is
\* all there is
C22_Witness ==
    \E g \in Cataloged :
        /\ gor[g].ret = "ok"
        /\ Len(gor[g].camera.dates) = 2
        /\ gor[g].camera.dates[1].ok /\ ~gor[g].camera.dates[1].recordOk
        /\ gor[g].camera.dates[1].imagesOk
        /\ gor[g].camera.dates[1].shape = <<"record000", "images000">>
        /\ ~gor[g].camera.dates[2].ok
        /\ gor[g].camera.dates[2].shape = <<"images000", "record000">>
        /\ Len(gor[g].allMedia) = 1

\* <cameraName>_YYYY-MM-DD_HH-mm-ss<ext> with the date and time of the
\* timestamp's start
DownloadForm(timestamp, ext) ==
    <<config.CameraName, "_", timestamp[1] \o timestamp[2], "-", timestamp[4], "-",
      timestamp[6], "_", timestamp[8], "-", timestamp[10], "-", timestamp[12], ext>>

\* C24 as claimed: every video item's download name is
\* <cameraName>_YYYY-MM-DD_HH-mm-ss.mp4 with the video's start, every image
\* item's is the same form with the image's own extension.
C24_Original ==
    \A g \in Parsed :
      \A i \in 1..Len(gor[g].media) :
        LET m == gor[g].media[i]
        IN  /\ Len(m.timestamp) >= 12
            /\ m.downloadFilename =
                  DownloadForm(m.timestamp,
                               IF m.type = "video" THEN ".mp4" ELSE NameExt(m.name))

\* C29 as claimed: an item's trigger is "alarm" exactly when its file name
\* starts with A and "periodic" exactly when it starts with P.
C29_Original ==
    \A g \in Parsed :
      \A i \in 1..Len(gor[g].media) :
        LET m == gor[g].media[i]
        IN  /\ m.trigger = "alarm" <=> m.name[1] = "A"
            /\ m.trigger = "periodic" <=> m.name[1] = "P"

(* --------------------------- specifications ---------------------------- *)

\* Concurrent /api/proxy and /api/video/ requests on a small set of URLs
Next ==
    \/ \E g \in G, u \in ProxyURLs : handleProxy(g, u)
    \/ \E g \in G, path \in VideoPaths : handleVideoProxy(g, path)
    \/ \E g \in G : CacheStep(g)

Spec == Init /\ [][Next]_vars

\* Camera load: concurrent /api/media requests with the pre-caching they
\* start, /api/proxy requests for distinct images and /api/video/ requests
NextLimit ==
    \/ \E g \in ProxyRequests : handleProxy(g, OwnImage(g))
    \/ \E g \in VideoRequests : handleVideoProxy(g, <<"m.mp4">>)
    \/ \E g \in MediaRequests : handleGetMedia(g)
    \/ \E g \in MediaRequests : ListResponse(g)
    \/ \E id \in LoopIds : LoopStep(id)
    \/ \E w \in W, task \in tasks.pend : Worker(w, task)
    \/ \E g \in L \cup W : CacheStep(g)

SpecLimit == Init /\ [][NextLimit]_vars

\* Requests that contend: a GET /api/media with its fire-and-forget
\* pre-caching of the card's video, /api/proxy requests for an image of their
\* own each, and an /api/video/ request for the card's video (the key the
\* pre-caching builds) or for another video (a fourth key)
MixRequest ==
    \/ \E g \in MediaRequests : handleGetMedia(g)
    \/ \E g \in ProxyRequests \ VideoRequests : handleProxy(g, OwnImage(g))
    \/ \E g \in VideoRequests, path \in {<<"v.264">>, <<"m.mp4">>} :
          handleVideoProxy(g, path)

\* A step of a goroutine that is under way: a response of the camera, a
\* step of a cache call, the start of a pre-cache goroutine
MixStep ==
    \/ \E g \in MediaRequests : ListResponse(g)
    \/ \E id \in LoopIds : LoopStep(id)
    \/ \E w \in W, task \in tasks.pend : Worker(w, task)
    \/ \E g \in L \cup W : CacheStep(g)

NextMix == MixRequest \/ MixStep

\* The requests when goroutines that can run do run, every request to the
\* camera is answered or fails, and every ffmpeg process exits
SpecMix == Init /\ [][NextMix]_vars /\ WF_vars(MixStep)

\* The background cacher from Start to Stop
NextSched ==
    \/ Start
    \/ Tick
    \/ ReceiveTick
    \/ ReceiveStop
    \/ Stop
    \/ StopReturn
    \/ ListResponse(BG)
    \/ RunEnd
    \/ \E id \in LoopIds : LoopStep(id)
    \/ \E w \in W, task \in tasks.pend : Worker(w, task)
    \/ \E w \in W : CacheStep(w)

SpecSched == Init /\ [][NextSched]_vars

\* A step of a goroutine of the background cacher's runs: a response of the
\* camera, a step of a cache call, the start of a pre-cache goroutine, the
\* return of wg.Wait()
RunStep ==
    \/ ListResponse(BG)
    \/ RunEnd
    \/ \E id \in LoopIds : LoopStep(id)
    \/ \E w \in W, task \in tasks.pend : Worker(w, task)
    \/ \E w \in W : CacheStep(w)

\* The background cacher up to the run before the last when goroutines that
\* can run do run, every request to the camera is answered or fails, and
\* every ffmpeg process exits
SpecSchedFair == Init /\ [][NextSched /\ sched'.runs < MaxRuns]_vars /\ WF_vars(RunStep)

\* The background cacher whose ticker never ceases to tick
NextStop ==
    \/ Start
    \/ Tick
    \/ ReceiveTickAgain
    \/ ReceiveStop
    \/ Stop
    \/ StopReturn
    \/ RunStep

\* The server starts over a cache directory in which an earlier process left
\* the converted video, or the images of the card
InitStop ==
    /\ gor = [g \in AllG |-> Idle]
    /\ \E warm \in {{getCacheKey(RawVideoURL, ".mp4")},
                     Keys \ {getCacheKey(RawVideoURL, ".mp4")}} :
          fs = [p \in Paths |-> IF p[1] = "final" /\ p[2] \in warm
                                THEN File("complete", BG)
                                ELSE Absent]
    /\ locks = {}
    /\ held = [k \in Keys |-> -1]
    /\ cameraSem = 0
    /\ tasks = InitTasks
    /\ sched = InitSched
    /\ config = [CameraURL |-> DefaultCameraURL]

\* The cacher when every run terminates, the select does not pass over a
\* ready stopCh for ever (it picks uniformly at random among the ready
\* cases) and Stop, once doneCh is closed, returns
SpecStop ==
    /\ InitStop
    /\ [][NextStop]_vars
    /\ WF_vars(RunStep)
    /\ SF_vars(ReceiveStop)
    /\ WF_vars(StopReturn)

\* The request strings of SpecValidate
Requests == UNION {[1..n -> Pieces] : n \in 0..MaxReqLen}

\* The cache keys the handlers can derive from the request string q
KeysFor(c, q) ==
    {getCacheKey(q, ProxyExt(q)), getCacheKey(c \o <<"/">> \o QueryUnescape(q), ".mp4")}

\* One request, for every request string and every CAMERA_URL: request
\* goroutine 1 holds the string it will be called with
InitValidate ==
    \E c \in CameraURLs, q \in Requests :
        /\ gor = [g \in AllG |-> IF g = 1 THEN [Idle EXCEPT !.url = q] ELSE Idle]
        /\ fs = [p \in Paths \cup {<<"final", k, 0>> : k \in KeysFor(c, q)} |-> Absent]
        /\ locks = {}
        /\ held = [k \in Keys \cup KeysFor(c, q) |-> -1]
        /\ cameraSem = 0
        /\ tasks = InitTasks
        /\ sched = InitSched
        /\ config = [CameraURL |-> c]

NextValidate ==
    \/ handleProxy(1, gor[1].url)
    \/ handleVideoProxy(1, gor[1].url)
    \/ CacheStep(1)

SpecValidate == InitValidate /\ [][NextValidate]_vars

\* One background run, the run at startup, over a card with two images
InitRun ==
    /\ gor = [g \in AllG |-> Idle]
    /\ fs = [p \in Paths |-> Absent]
    /\ locks = {}
    /\ held = [k \in Keys |-> -1]
    /\ cameraSem = 0
    /\ tasks = InitTasks
    /\ sched = [InitSched EXCEPT !.images = {ImageURL, OtherImageURL}]
    /\ config = [CameraURL |-> DefaultCameraURL]

NextRun ==
    \/ Start
    \/ ListResponse(BG)
    \/ RunEnd
    \/ \E id \in LoopIds : LoopStep(id)
    \/ \E w \in W, task \in tasks.pend : Worker(w, task)
    \/ \E w \in W : CacheStep(w)

SpecRun == InitRun /\ [][NextRun]_vars

\* fetchDateMedia for every listing of one name of images000 or record000 and
\* two values of CAMERA_NAME
InitParse ==
    \E n \in Names, sub \in {"images000", "record000"}, c \in {"camera", "front_door"} :
        /\ gor = [g \in AllG |-> IF g = 1 THEN Parsing(<<n>>, sub) ELSE Idle]
        /\ fs = [p \in Paths |-> Absent]
        /\ locks = {}
        /\ held = [k \in Keys |-> -1]
        /\ cameraSem = 0
        /\ tasks = InitTasks
        /\ sched = InitSched
        /\ config = [CameraURL |-> DefaultCameraURL, CameraName |-> c]

NextParse == ParseEntries(1)

SpecParse == InitParse /\ [][NextParse]_vars

\* fetchAllMedia over every card
InitCatalog ==
    \E c \in Cards :
        /\ gor = [g \in AllG |-> IF g = 1 THEN Cataloging(c) ELSE Idle]
        /\ fs = [p \in Paths |-> Absent]
        /\ locks = {}
        /\ held = [k \in Keys |-> -1]
        /\ cameraSem = 0
        /\ tasks = InitTasks
        /\ sched = InitSched
        /\ config = [CameraURL |-> DefaultCameraURL, CameraName |-> "camera"]

NextCatalog ==
    \/ CatalogRoot(1)
    \/ CatalogDate(1)
    \/ CatalogSub(1)
    \/ MatchNext(1)
    \/ MatchImage(1)
    \/ MatchAssign(1)
    \/ CatalogMatched(1)

SpecCatalog == InitCatalog /\ [][NextCatalog]_vars

\* One catalog item, the goroutine started to pre-cache it, and the request
\* of the page for it
InitWarm ==
    /\ config = [CameraURL |-> DefaultCameraURL, CameraName |-> "camera"]
    /\ \E c \in WarmCases :
        /\ gor = [g \in AllG |-> Idle]
        /\ fs = [p \in Paths \cup {<<"final", k, 0>> : k \in RequestKeys(c) \cup {WarmKey(c)}}
                    |-> Absent]
        /\ locks = {}
        /\ held = [k \in Keys \cup RequestKeys(c) \cup {WarmKey(c)} |-> -1]
        /\ cameraSem = 0
        /\ tasks = [InitTasks EXCEPT
                       !.pend = {WarmTask(c)},
                       !.wg = IF c.kind = "async" THEN 0 ELSE 1,
                       !.loop[1].sem = IF c.kind = "async" THEN 1 ELSE 0]
        /\ sched = [warm |-> c] @@ InitSched

NextWarm ==
    \/ \E w \in W, task \in tasks.pend : Worker(w, task)
    \/ WarmRequest(1, sched.warm)
    \/ \E g \in {1} \cup W : CacheStep(g)

SpecWarm == InitWarm /\ [][NextWarm]_vars

InitConvert ==
    \E data \in RawVideos :
        /\ gor = [g \in AllG |-> IF g = 1 THEN Conversion(data) ELSE Idle]
        /\ fs = [p \in Paths |-> Absent]
        /\ locks = {}
        /\ held = [k \in Keys |-> -1]
        /\ cameraSem = 0
        /\ tasks = InitTasks
        /\ sched = InitSched
        /\ config = [CameraURL |-> DefaultCameraURL]

NextConvert ==
    \/ ConvertFetch(1)
    \/ ConvertCreateTemp(1)
    \/ ConvertWrite(1)
    \/ ConvertClose(1)
    \/ ConvertProbe(1)
    \/ ConvertFfmpeg(1)

SpecConvert == InitConvert /\ [][NextConvert]_vars

InitConfig ==
    \E env \in [{"MAX_CONCURRENT_CONVERSIONS", "BACKGROUND_CACHE_INTERVAL_MINUTES"}
                    -> EnvValues] :
        /\ gor = [g \in AllG |-> IF g = 1 THEN Loading(env) ELSE Idle]
        /\ fs = [p \in Paths |-> Absent]
        /\ locks = {}
        /\ held = [k \in Keys |-> -1]
        /\ cameraSem = 0
        /\ tasks = InitTasks
        /\ sched = InitSched
        /\ config = [CameraURL |-> DefaultCameraURL]

NextConfig == LoadConfig(1) \/ ValidateConfig(1)

SpecConfig == InitConfig /\ [][NextConfig]_vars

InitFps ==
    \E probe \in ProbeResults :
        /\ gor = [g \in AllG |-> IF g = 1 THEN Detecting(probe) ELSE Idle]
        /\ fs = [p \in Paths |-> Absent]
        /\ locks = {}
        /\ held = [k \in Keys |-> -1]
        /\ cameraSem = 0
        /\ tasks = InitTasks
        /\ sched = InitSched
        /\ config = [CameraURL |-> DefaultCameraURL]

NextFps == ProbeRun(1) \/ FpsLine(1) \/ FrameRate(1)

SpecFps == InitFps /\ [][NextFps]_vars

\* stripHXVSHeaders for every raw video
InitStrip ==
    \E data \in RawVideos :
        /\ gor = [g \in AllG |-> IF g = 1 THEN Stripping(data) ELSE Idle]
        /\ fs = [p \in Paths |-> Absent]
        /\ locks = {}
        /\ held = [k \in Keys |-> -1]
        /\ cameraSem = 0
        /\ tasks = InitTasks
        /\ sched = InitSched
        /\ config = [CameraURL |-> DefaultCameraURL]

NextStrip == StripStep(1)

SpecStrip == InitStrip /\ [][NextStrip]_vars

\* stripHXVSHeaders for every raw video, and again for its output
InitTwice ==
    \E data \in RawVideos \cup SplicedVideos :
        /\ gor = [g \in AllG |-> IF g = 1
                                  THEN [pass |-> 1, first |-> <<>>] @@ Stripping(data)
                                  ELSE Idle]
        /\ fs = [p \in Paths |-> Absent]
        /\ locks = {}
        /\ held = [k \in Keys |-> -1]
        /\ cameraSem = 0
        /\ tasks = InitTasks
        /\ sched = InitSched
        /\ config = [CameraURL |-> DefaultCameraURL]

NextTwice == StripStep(1) \/ StripAgain(1)

SpecTwice == InitTwice /\ [][NextTwice]_vars

\* matchVideoThumbnails for every list of items of a date directory
InitThumbs ==
    \E media \in MediaLists :
        /\ gor = [g \in AllG |-> IF g = 1 THEN Matching(media) ELSE Idle]
        /\ fs = [p \in Paths |-> Absent]
        /\ locks = {}
        /\ held = [k \in Keys |-> -1]
        /\ cameraSem = 0
        /\ tasks = InitTasks
        /\ sched = InitSched
        /\ config = [CameraURL |-> DefaultCameraURL]

NextThumbs ==
    \/ MatchNext(1)
    \/ MatchImage(1)
    \/ MatchAssign(1)

SpecThumbs == InitThumbs /\ [][NextThumbs]_vars

\* Names of a date directory of 2025-11-10: a video that starts at 21:25:11
\* and ends at 11:25:56, 21:25:11 or 21:25:56, and images taken one second
\* before the start, after it, before noon of that day and of the next day
NightVideos ==
    {<<"A", "25", "11", "10", "_", "21", "25", "11", "_">> \o e \o <<".264">> :
        e \in {<<"11", "25", "56">>, <<"21", "25", "11">>, <<"21", "25", "56">>}}

NightImages ==
    {<<"A", "25", "11">> \o t \o <<"11", ".jpg">> :
        t \in {<<"10", "21", "25", "10">>, <<"10", "21", "25", "25">>,
                <<"10", "11", "25", "25">>, <<"11", "11", "25", "25">>}}

\* the items fetchDateMedia hands to matchVideoThumbnails
NightItems ==
    {EntryItems(imgs, <<"2025-11-10">>, "images000")
       \o EntryItems(<<v>>, <<"2025-11-10">>, "record000") :
         imgs \in UNION {[1..n -> NightImages] : n \in 0..(MaxMedia - 1)},
         v \in NightVideos}

\* matchVideoThumbnails over the items of such a directory
InitNight ==
    /\ config = [CameraURL |-> DefaultCameraURL, CameraName |-> "camera"]
    /\ \E items \in NightItems :
          gor = [g \in AllG |-> IF g = 1 THEN [items |-> items] @@ Matching(Views(items))
                                ELSE Idle]
    /\ fs = [p \in Paths |-> Absent]
    /\ locks = {}
    /\ held = [k \in Keys |-> -1]
    /\ cameraSem = 0
    /\ tasks = InitTasks
    /\ sched = InitSched

SpecNight == InitNight /\ [][NextThumbs]_vars

\* LateCaller calls for a path the script has deleted; until it has, no other
\* call starts for a deleted path
StartsInOrder(g, p) ==
    IF g = LateCaller THEN fs[p] = Deleted
    ELSE fs[p] # Deleted \/ gor[LateCaller].pc # "idle"

\* Requests for an image and a video while the cleanup script runs
NextCleanup ==
    \/ \E g \in G : /\ StartsInOrder(g, getCachePath(ImageURL, ProxyExt(ImageURL)))
                    /\ handleProxy(g, ImageURL)
    \/ \E g \in G : /\ StartsInOrder(g, getCachePath(VideoTarget(<<"m.mp4">>), ".mp4"))
                    /\ handleVideoProxy(g, <<"m.mp4">>)
    \/ \E g \in G : CacheStep(g)
    \/ \E p \in Paths : Cleanup(p)

SpecCleanup == Init /\ [][NextCleanup]_vars

====
